---- MODULE Spec2Model ----
(***************************************************************************)
(* Passwood (Own-Password): the encrypted file codec (cryptor/format.ts,   *)
(* cryptor/crypto.ts), the collection utilities (cryptor/utils.ts) and the *)
(* editor / tag dialog state (PasswordFileEditor.tsx, TagsDialog.tsx).     *)
(*                                                                         *)
(* Bytes are naturals 0..255 and buffers are sequences of bytes.  A JS     *)
(* string is a sequence of one-character strings.  A 32-bit unsigned       *)
(* number is the pair <<low 16 bits, high 16 bits>>, so that every value a *)
(* DataView can read stays inside TLC's integer range.                     *)
(*                                                                         *)
(* The Web Crypto primitives are not code of the repository.  They are     *)
(* modelled by stand-ins with the properties of the ideal primitive on     *)
(* the modelled domain: PBKDF2 is injective in (password, salt,            *)
(* iterations, usage); HMAC and the GCM tag are positional checksums that  *)
(* change whenever the key, the nonce or a single bit of the data change.  *)
(***************************************************************************)
EXTENDS Integers, Sequences, FiniteSets, Bags, TLC

VARIABLES
    \* ---- codec session (format.ts) ----
    file,          \* bytes of the stored file, <<>> before the first encode
    encDb,         \* the database handed to the last encodePasswoodFile
    encPw,         \* the master password handed to the last encodePasswoodFile
    encSalt,       \* which salt crypto.getRandomValues gave the last encode, 0 before
    encIv,         \* which nonce crypto.getRandomValues gave the last encode, 0 before
    flipped,       \* 0 while file is what the last encode wrote; the index of
                   \* the byte that was tampered with; -1 for a file that was cut
                   \* or that another writer stored; -2 for a file that an
                   \* earlier build wrote
    dpc,           \* position of the running decodePasswoodFile
    dPw,           \* masterPassword argument of the running decode
    dHeader,       \* header parsed by the running decode
    dKey,          \* decryptionKey of the running decode
    dJson,         \* jsonData of the running decode
    dResult,       \* value returned by decode
    dError,        \* message of the Error thrown by decode, "" if none
    dIsValid,      \* isValid of the running decode: "pending", "true", "false"
    dLog,          \* crypto calls made by the running decode, in order
    errorPopupMessage, \* UnlockDialog: the message of its error popup
    reEncoded   \* history: the last step encoded, with another salt or nonce,
                \* the vault and password of the file it replaced

VARIABLES
    \* ---- PasswordFileEditor and TagsDialog ----
    collection,       \* PasswordFileEditor: the collection shown by the editor
    showTagsDialog,   \* PasswordFileEditor: the tag dialog is open
    hasUnsavedChanges,\* PasswordFileEditor: the collection differs from the file
    editedTags,       \* TagsDialog: the tag list as edited
    editingId,        \* TagsDialog: id of the tag whose name is in the input, 0 for null
    originalTags,     \* TagsDialog: the tags prop at mount
    renamedTags,      \* TagsDialog: recorded renames <<oldName, newName>>
    deletedTagNames,  \* TagsDialog: recorded names of deleted tags
    deleteConfirm,    \* TagsDialog: <<>> for null, else <<[id, name]>>
    showErrorPopup,   \* TagsDialog: "Invalid tag name!" is shown
    nextTagId,        \* the next value of crypto.randomUUID for a tag
    editStart,        \* history: name of the edited tag when its edit began
    abandoned,        \* history: an edit was left with Escape or rejected
    saves,            \* history: number of Saves of the tag dialog
    savedUpTo,        \* history: the lengths renamedTags and deletedTagNames had
                      \* at the last Save of the tag dialog
    steps             \* history: number of steps taken in the editor

VARIABLES
    \* ---- PasswordFileEditor: records and the save to the server ----
    saving,           \* position of the running handleSave: "idle", "deriving"
                      \* (before JSON.stringify), "storing" (after it)
    updatedDb,        \* updatedDb of the running handleSave
    persisted,        \* the collection a load of the stored file returns
    aliased,          \* ids of the records whose tags array is one object in
                      \* collection and in updatedDb
    calls,            \* history: number of handler calls made by the user
    lastHandler       \* history: what the last handler call did

VARIABLES
    \* ---- utils.ts ----
    vault,            \* the collection the next call is given
    clock,            \* the time new Date() reads
    nextPasswordId,   \* the next value of generatePasswordId
    lastCall,         \* history: the last call, its arguments, the collection it got
                      \* (before) and that collection object after the call
                      \* (argument): no statement of utils.ts assigns to it
    returned,         \* what searchPasswords returned last
    thrown            \* the name of the error the last call threw, "" for none

VARIABLES
    \* ---- format.ts: the header codec on its own ----
    hpc,              \* "given", "serialized" or "done"
    hIn,              \* the header serializeHeader is given
    hBytes,           \* what serializeHeader returned
    hOut              \* what deserializeHeader returned for hBytes

utilsVars == <<vault, clock, nextPasswordId, lastCall, returned, thrown>>

VARIABLES
    \* ---- MainPage, UnlockDialog, CreateCollectionDialog and the backend ----
    storage,              \* backend: the bytes of each file of PASSWORDS_DIR, <<>> for none
    appUnlocked,          \* MainPage state
    selectedFile,         \* MainPage state, "" for null
    mainCollection,       \* MainPage state collection: <<>> for null, or <<collection>>
    mainMasterPassword,   \* MainPage state masterPassword, 0 for ''
    unlockDialogOpen,     \* MainPage state
    createDialogOpen,     \* MainPage state
    dialogCollectionName, \* MainPage state
    unlockPassword,       \* UnlockDialog state masterPassword, 0 for ''
    loading,              \* UnlockDialog state
    attempts,             \* the calls of UnlockDialog.handleUnlock that have not returned
    createForm,           \* CreateCollectionDialog state: collectionName,
                          \* masterPassword, confirmMasterPassword, loading
    creations,            \* the calls of handleCreate that have not returned
    timers,               \* the pending setTimeout callbacks, in the order they were set
    instance,             \* the number of times the picker and its dialogs were unmounted
    clears,               \* history: the number of times the session was ended
    sessionOf,            \* history: the value of clears when the unlock or creation
                          \* that set mainCollection was started
    appSteps,             \* history: number of steps the user has taken
    appLast               \* history: what the last step did

headerVars == <<hpc, hIn, hBytes, hOut>>

shellVars == <<storage, appUnlocked, selectedFile, mainCollection, mainMasterPassword,
               unlockDialogOpen, createDialogOpen, dialogCollectionName,
               unlockPassword, loading, attempts, createForm, creations, timers,
               instance, clears, sessionOf, appSteps, appLast>>

appVars == <<headerVars, shellVars>>

savingVars == <<saving, updatedDb, persisted, aliased, calls, lastHandler>>

editorVars == <<collection, showTagsDialog, hasUnsavedChanges, editedTags, editingId, originalTags,
                renamedTags, deletedTagNames, deleteConfirm, showErrorPopup,
                nextTagId, editStart, abandoned, saves, savedUpTo, steps,
                saving, updatedDb, persisted, aliased, calls, lastHandler>>

codecVars == <<file, encDb, encPw, encSalt, encIv, flipped, dpc, dPw, dHeader,
               dKey, dJson, dResult, dError, dIsValid, dLog, errorPopupMessage,
               reEncoded>>

vars == <<file, encDb, encPw, encSalt, encIv, flipped, dpc, dPw, dHeader, dKey,
          dJson, dResult, dError, dIsValid, dLog, errorPopupMessage, reEncoded,
          collection, showTagsDialog, hasUnsavedChanges, editedTags, editingId,
          originalTags, renamedTags, deletedTagNames, deleteConfirm, showErrorPopup,
          nextTagId, editStart, abandoned, saves, savedUpTo, steps,
          saving, updatedDb, persisted, aliased, calls, lastHandler,
          vault, clock, nextPasswordId, lastCall, returned, thrown,
          hpc, hIn, hBytes, hOut,
          storage, appUnlocked, selectedFile, mainCollection, mainMasterPassword,
          unlockDialogOpen, createDialogOpen, dialogCollectionName,
          unlockPassword, loading, attempts, createForm, creations, timers,
          instance, clears, sessionOf, appSteps, appLast>>

----------------------------------------------------------------------------
(* Bounds *)

\* number of distinct salts crypto.getRandomValues can return in the model
MaxSalt == 2
\* number of distinct nonces crypto.getRandomValues can return in the model
MaxIv == 1
\* number of master passwords
MaxPw == 2
\* number of steps the user takes in the editor
MaxSteps == 10
\* number of handler calls the user makes in the editor of records
MaxCalls == 5
\* number of steps the user takes in the picker and its dialogs
MaxAppSteps == 6
\* number of calls of handleUnlock, and of handleCreate, that can be running
MaxRunning == 2
\* number of records addPassword is called for
MaxPasswords == 2
\* latest reading of the clock
MaxClock == 2

----------------------------------------------------------------------------
(* Byte helpers *)

Zeros(n) == [i \in 1..n |-> 0]

\* TypedArray.slice(from, to)
Slice(buf, from, to) == SubSeq(buf, from + 1, to)

\* positional checksum: any single-bit change of buf changes it
\* the sum of i * b[i], as the size of the bag with i * b[i] copies of i
WeightedSum(b) ==
    BagCardinality([i \in {j \in 1..Len(b) : b[j] > 0} |-> i * b[i]])

\* positional checksum of a buffer; the buffer is evaluated once
Weighted(buf) == CHOOSE w \in {WeightedSum(b) : b \in {buf}} : TRUE

LE3(n) == <<n % 256, (n \div 256) % 256, (n \div 65536) % 256>>

\* 32-bit unsigned numbers as <<low half, high half>>
U32(n) == <<n % 65536, n \div 65536>>

\* DataView.setUint32(offset, v, true)
U32Bytes(v) == <<v[1] % 256, v[1] \div 256, v[2] % 256, v[2] \div 256>>

\* DataView.getUint32(offset, true)
BytesU32(b) == <<b[1] + 256 * b[2], b[3] + 256 * b[4]>>

Pow2(k) == CASE k = 0 -> 1 [] k = 1 -> 2 [] k = 2 -> 4 [] k = 3 -> 8
             [] k = 4 -> 16 [] k = 5 -> 32 [] k = 6 -> 64 [] k = 7 -> 128

\* the byte v with bit k inverted
FlipBitOf(v, k) ==
    IF (v \div Pow2(k)) % 2 = 1 THEN v - Pow2(k) ELSE v + Pow2(k)

----------------------------------------------------------------------------
(* JS strings *)

UpperChars == <<"A","B","C","D","E","F","G","H","I","J","K","L","M",
                "N","O","P","Q","R","S","T","U","V","W","X","Y","Z">>

LowerChars == <<"a","b","c","d","e","f","g","h","i","j","k","l","m",
                "n","o","p","q","r","s","t","u","v","w","x","y","z">>

IndexIn(table, c) == CHOOSE i \in 1..Len(table) : table[i] = c

IsUpper(c) == \E i \in 1..Len(UpperChars) : UpperChars[i] = c

IsLower(c) == \E i \in 1..Len(LowerChars) : LowerChars[i] = c

LowerChar(c) == IF IsUpper(c) THEN LowerChars[IndexIn(UpperChars, c)] ELSE c

\* String.prototype.toLowerCase
toLowerCase(s) == [i \in 1..Len(s) |-> LowerChar(s[i])]

\* String.prototype.includes
includes(s, q) ==
    \E i \in 0..(Len(s) - Len(q)) : SubSeq(s, i + 1, i + Len(q)) = q

RECURSIVE trimStart(_)
trimStart(s) ==
    IF s # <<>> /\ Head(s) = " " THEN trimStart(Tail(s)) ELSE s

RECURSIVE trimEnd(_)
trimEnd(s) ==
    IF s # <<>> /\ s[Len(s)] = " " THEN trimEnd(SubSeq(s, 1, Len(s) - 1)) ELSE s

\* String.prototype.trim
trim(s) == trimEnd(trimStart(s))

\* UTF-16 code unit of a character of the model's alphabet
CharCode(c) ==
    CASE IsUpper(c) -> 64 + IndexIn(UpperChars, c)
      [] IsLower(c) -> 96 + IndexIn(LowerChars, c)
      [] c = " "    -> 32
      [] c = "."    -> 46
      [] c = "@"    -> 64
      [] OTHER      -> 63

----------------------------------------------------------------------------
(* JS values: optional properties *)

\* a property that is not present on the object
Absent == [st |-> "absent", v |-> <<>>]

\* a property that is present and holds undefined
Undefined == [st |-> "undefined", v |-> <<>>]

\* a property that holds the value x
Some(x) == [st |-> "value", v |-> x]

\* what reading the property yields: <<>> for undefined, <<x>> for x
Get(o) == IF o.st = "value" THEN <<o.v>> ELSE <<>>

----------------------------------------------------------------------------
(* JSON text: a sequence of code units; a property name with its quotes    *)
(* and colon is one unit                                                   *)

QUOTE    == 34
COMMA    == 44
LBRACKET == 91
RBRACKET == 93
LBRACE   == 123
RBRACE   == 125

KEYS == <<"version", "created", "modified", "passwords", "tags", "id",
          "title", "login", "password", "url", "notes", "name", "color">>

JKey(k) == <<IndexIn(KEYS, k)>>

JStr(s) == <<QUOTE>> \o [i \in 1..Len(s) |-> CharCode(s[i])] \o <<QUOTE>>

\* an ISO timestamp string; timestamps are clock ticks in the model
JTime(t) == <<QUOTE, 48 + t, QUOTE>>

\* a UUID string; ids are naturals in the model
JId(n) == <<QUOTE, 48 + n, QUOTE>>

RECURSIVE JJoin(_)
JJoin(parts) ==
    IF parts = <<>> THEN <<>>
    ELSE IF Head(parts) = <<>> THEN JJoin(Tail(parts))
    ELSE IF JJoin(Tail(parts)) = <<>> THEN Head(parts)
    ELSE Head(parts) \o <<COMMA>> \o JJoin(Tail(parts))

JArray(items) == <<LBRACKET>> \o JJoin(items) \o <<RBRACKET>>

JObject(members) == <<LBRACE>> \o JJoin(members) \o <<RBRACE>>

\* a property whose value is undefined is left out by JSON.stringify
JOpt(k, o, text) == IF o.st = "value" THEN JKey(k) \o text ELSE <<>>

JStrings(ss) == JArray([i \in 1..Len(ss) |-> JStr(ss[i])])

JTag(t) ==
    JObject(<<JKey("id") \o JId(t.id), JKey("name") \o JStr(t.name),
              JKey("color") \o JStr(t.color)>>)

JPassword(p) ==
    JObject(<<JKey("id") \o JId(p.id),
              JKey("title") \o JStr(p.title),
              JKey("login") \o JStr(p.login),
              JKey("password") \o JStr(p.password),
              JOpt("url", p.url, JStr(p.url.v)),
              JOpt("notes", p.notes, JStr(p.notes.v)),
              JOpt("tags", p.tags, JStrings(p.tags.v)),
              JKey("created") \o JTime(p.created),
              JKey("modified") \o JTime(p.modified)>>)

\* JSON.stringify(database)
JSONStringify(db) ==
    JObject(<<JKey("version") \o JStr(db.version),
              JKey("created") \o JTime(db.created),
              JKey("modified") \o JTime(db.modified),
              JKey("passwords") \o
                  JArray([i \in 1..Len(db.passwords) |-> JPassword(db.passwords[i])]),
              JOpt("tags", db.tags,
                   JArray([i \in 1..Len(db.tags.v) |-> JTag(db.tags.v[i])]))>>)

\* the object JSON.parse builds from a text: no property holds undefined
AsParsedOpt(o) == IF o.st = "value" THEN o ELSE Absent

AsParsedPassword(p) ==
    [p EXCEPT !.url = AsParsedOpt(@), !.notes = AsParsedOpt(@),
              !.tags = AsParsedOpt(@)]

AsParsed(db) ==
    [db EXCEPT !.passwords = [i \in 1..Len(@) |-> AsParsedPassword(@[i])],
               !.tags = AsParsedOpt(@)]

----------------------------------------------------------------------------
(* crypto.ts: stand-ins for the Web Crypto primitives *)

IsHighSurrogate(c) == c >= 55296 /\ c <= 56319

IsLowSurrogate(c) == c >= 56320 /\ c <= 57343

\* the UTF-8 bytes of one code point
Utf8Bytes(cp) ==
    IF cp < 128 THEN <<cp>>
    ELSE IF cp < 2048 THEN <<192 + (cp \div 64), 128 + (cp % 64)>>
    ELSE IF cp < 65536
         THEN <<224 + (cp \div 4096), 128 + ((cp \div 64) % 64), 128 + (cp % 64)>>
    ELSE <<240 + (cp \div 262144), 128 + ((cp \div 4096) % 64),
           128 + ((cp \div 64) % 64), 128 + (cp % 64)>>

\* UTF-8 of a string of code units: a surrogate pair is one code point, a
\* lone surrogate is encoded as U+FFFD
RECURSIVE Utf8Encode(_)
Utf8Encode(str) ==
    IF str = <<>> THEN <<>>
    ELSE LET c == Head(str)
         IN  IF IsHighSurrogate(c) /\ Len(str) > 1 /\ IsLowSurrogate(str[2])
             THEN Utf8Bytes(65536 + (c - 55296) * 1024 + (str[2] - 56320))
                      \o Utf8Encode(SubSeq(str, 3, Len(str)))
             ELSE IF IsHighSurrogate(c) \/ IsLowSurrogate(c)
             THEN Utf8Bytes(65533) \o Utf8Encode(Tail(str))
             ELSE Utf8Bytes(c) \o Utf8Encode(Tail(str))

\* TextEncoder.encode on a string of code units
TextEncode(str) ==
    IF \A i \in 1..Len(str) : str[i] < 128 THEN str ELSE Utf8Encode(str)

\* what a lead byte announces: the number of continuation bytes, the range of
\* the first of them, and the bits the lead byte carries
Utf8Lead(b) ==
    IF b >= 194 /\ b <= 223 THEN [need |-> 1, lo |-> 128, hi |-> 191, bits |-> b - 192]
    ELSE IF b = 224 THEN [need |-> 2, lo |-> 160, hi |-> 191, bits |-> 0]
    ELSE IF b = 237 THEN [need |-> 2, lo |-> 128, hi |-> 159, bits |-> 13]
    ELSE IF b >= 225 /\ b <= 239 THEN [need |-> 2, lo |-> 128, hi |-> 191, bits |-> b - 224]
    ELSE IF b = 240 THEN [need |-> 3, lo |-> 144, hi |-> 191, bits |-> 0]
    ELSE IF b = 244 THEN [need |-> 3, lo |-> 128, hi |-> 143, bits |-> 4]
    ELSE IF b >= 241 /\ b <= 243 THEN [need |-> 3, lo |-> 128, hi |-> 191, bits |-> b - 240]
    ELSE [need |-> 0, lo |-> 0, hi |-> 0, bits |-> 0]

\* the code units of one code point
CodeUnits(cp) ==
    IF cp < 65536 THEN <<cp>>
    ELSE <<55296 + ((cp - 65536) \div 1024), 56320 + ((cp - 65536) % 1024)>>

\* the code point of a lead byte's bits and its continuation bytes
RECURSIVE Utf8Value(_, _)
Utf8Value(acc, conts) ==
    IF conts = <<>> THEN acc
    ELSE Utf8Value(acc * 64 + (Head(conts) - 128), Tail(conts))

\* the UTF-8 decoder: bytes that do not form a sequence decode to U+FFFD, one
\* for each interrupted sequence
RECURSIVE Utf8Decode(_)
Utf8Decode(bytes) ==
    IF bytes = <<>> THEN <<>>
    ELSE LET b    == Head(bytes)
             lead == Utf8Lead(b)
             Fits(k) == /\ k + 1 <= Len(bytes)
                        /\ bytes[k + 1] >= (IF k = 1 THEN lead.lo ELSE 128)
                        /\ bytes[k + 1] <= (IF k = 1 THEN lead.hi ELSE 191)
             \* the continuation bytes that follow the lead byte
             got  == IF lead.need >= 1 /\ Fits(1)
                     THEN IF lead.need >= 2 /\ Fits(2)
                          THEN IF lead.need >= 3 /\ Fits(3) THEN 3 ELSE 2
                          ELSE 1
                     ELSE 0
             rest == SubSeq(bytes, got + 2, Len(bytes))
         IN  IF b < 128 THEN <<b>> \o Utf8Decode(Tail(bytes))
             ELSE IF lead.need > 0 /\ got = lead.need
             THEN CodeUnits(Utf8Value(lead.bits, SubSeq(bytes, 2, got + 1)))
                      \o Utf8Decode(rest)
             ELSE <<65533>> \o Utf8Decode(rest)

\* TextDecoder.decode: UTF-8 with replacement; a byte order mark at the start
\* is dropped (ignoreBOM is false by default)
TextDecode(bytes) ==
    IF \A i \in 1..Len(bytes) : bytes[i] < 128 THEN bytes
    ELSE LET str == Utf8Decode(bytes)
         IN  IF str # <<>> /\ str[1] = 65279 THEN Tail(str) ELSE str

Passwords == 1..MaxPw

\* the values crypto.getRandomValues can return for a 32-byte salt
generateSalt(n) == [i \in 1..32 |-> (17 * n + i) % 256]

\* the values crypto.getRandomValues can return for a 12-byte nonce
generateIV(n) == [i \in 1..12 |-> (29 * n + 3 * i) % 256]

PBKDF2_ITERATIONS == U32(600000)

HMAC_ITERATIONS == U32(100000)

\* PBKDF2-SHA256 into an AES-GCM key: a key is known by what it was derived from
deriveKey(password, salt, iterations) ==
    [pw |-> password, salt |-> salt, iter |-> iterations, alg |-> "AES-GCM"]

\* PBKDF2-SHA256 into an HMAC key, always with 100000 iterations
createHMACKey(password, salt) ==
    [pw |-> password, salt |-> salt, iter |-> HMAC_ITERATIONS, alg |-> "HMAC"]

\* key material that does not depend on the password
KeyBytes_nopw(key) ==
    <<0>> \o LE3(Weighted(key.salt)) \o U32Bytes(key.iter)
        \o <<IF key.alg = "HMAC" THEN 1 ELSE 2>>

\* the key material as bytes: different keys have different bytes
KeyBytes(key) ==
    <<key.pw>> \o LE3(Weighted(key.salt)) \o U32Bytes(key.iter)
        \o <<IF key.alg = "HMAC" THEN 1 ELSE 2>>

\* HMAC-SHA256: 32 bytes that depend on the key and on every bit of data
generateHMAC(data, key) ==
    KeyBytes(key) \o LE3(Weighted(data)) \o Zeros(20)

\* crypto.subtle.verify recomputes the signature and compares
verifyHMAC(data, signature, key) == signature = generateHMAC(data, key)

\* the value the keystream is offset by under a key and a nonce
KeyStream(key, iv) == (Weighted(KeyBytes(key)) + Weighted(iv)) % 256

\* byte i of the data combined with byte i of the keystream
Xor(bytes, pad, sign) ==
    [i \in 1..Len(bytes) |-> (bytes[i] + 2560 + sign * (pad + 7 * i)) % 256]

\* the 128-bit GCM tag: depends on key, nonce and every bit of the ciphertext
GcmTag(key, iv, ct) ==
    KeyBytes(key) \o LE3(Weighted(iv)) \o LE3(Weighted(ct)) \o <<0>>

\* AES-256-GCM over TextEncoder.encode(data): ciphertext followed by the tag
encryptData(data, key, iv) ==
    LET dataBuffer == TextEncode(data)
        ct == CHOOSE c \in {Xor(dataBuffer, pad, 1) : pad \in {KeyStream(key, iv)}} : TRUE
    IN  ct \o GcmTag(key, iv, ct)

\* AES-256-GCM decryption: rejects unless the tag verifies
decryptData(encryptedData, key, iv) ==
    LET n  == Len(encryptedData) - 16
        ct == SubSeq(encryptedData, 1, n)
        tg == SubSeq(encryptedData, n + 1, n + 16)
    IN  IF n < 0 \/ tg # GcmTag(key, iv, ct)
        THEN [ok |-> FALSE, text |-> <<>>]
        ELSE [ok |-> TRUE,
              text |-> TextDecode(CHOOSE t \in {Xor(ct, pad, -1) :
                                               pad \in {KeyStream(key, iv)}} : TRUE)]

----------------------------------------------------------------------------
(* format.ts: header codec *)

MAGIC_BYTES == <<80, 83, 87, 68>>      \* 'PSWD'

FILE_VERSION == U32(1)

HEADER_SIZE == 256

ENCRYPTION_ALGORITHM_AES_GCM == U32(1)

IV_SIZE == 12

\* TypedArray.set(bytes, offset)
BufSet(buf, bytes, offset) ==
    [i \in 1..Len(buf) |->
        IF i > offset /\ i <= offset + Len(bytes) THEN bytes[i - offset] ELSE buf[i]]

\* the first n bytes that bytes leaves in a region of n bytes
Fit(bytes, n) == SubSeq(bytes \o Zeros(n), 1, n)

\* each set() lands at its fixed offset; what a field writes beyond its width
\* is overwritten by the next field, so a field contributes its first bytes
serializeHeader(header) ==
    SubSeq(Fit(TextEncode(header.magic), 4)
             \o U32Bytes(header.version)
             \o U32Bytes(header.encryptionAlgorithm)
             \o Fit(header.kdfSalt, 32)
             \o U32Bytes(header.kdfIterations)
             \o U32Bytes(header.kdfMemory)
             \o U32Bytes(header.kdfParallelism)
             \o header.hmac
             \o Zeros(HEADER_SIZE),
           1, HEADER_SIZE)

\* a reader that takes kdfMemory and kdfParallelism from each other's offset
deserializeHeader_swapped(buffer) ==
    [magic               |-> TextDecode(Slice(buffer, 0, 4)),
     version             |-> BytesU32(Slice(buffer, 4, 8)),
     encryptionAlgorithm |-> BytesU32(Slice(buffer, 8, 12)),
     kdfSalt             |-> Slice(buffer, 12, 44),
     kdfIterations       |-> BytesU32(Slice(buffer, 44, 48)),
     kdfMemory           |-> BytesU32(Slice(buffer, 52, 56)),
     kdfParallelism      |-> BytesU32(Slice(buffer, 48, 52)),
     hmac                |-> Slice(buffer, 56, 88)]

\* called only with a buffer of HEADER_SIZE bytes (format.ts:97)
deserializeHeader(buffer) ==
    [magic               |-> TextDecode(Slice(buffer, 0, 4)),
     version             |-> BytesU32(Slice(buffer, 4, 8)),
     encryptionAlgorithm |-> BytesU32(Slice(buffer, 8, 12)),
     kdfSalt             |-> Slice(buffer, 12, 44),
     kdfIterations       |-> BytesU32(Slice(buffer, 44, 48)),
     kdfMemory           |-> BytesU32(Slice(buffer, 48, 52)),
     kdfParallelism      |-> BytesU32(Slice(buffer, 52, 56)),
     hmac                |-> Slice(buffer, 56, 88)]

NoHeader == deserializeHeader(Zeros(HEADER_SIZE))

\* the header serialized with its HMAC field left in place
HeaderWithoutHMAC_keep(header) == serializeHeader(header)

\* format.ts:112, serializeHeader({ ...header, hmac: new Uint8Array(32) })
HeaderWithoutHMAC(header) == serializeHeader([header EXCEPT !.hmac = Zeros(32)])

\* the ciphertext is written at the offset of the nonce
encodeJsonData_overlap(jsonData, masterPassword, salt, iv) ==
    LET iterations    == PBKDF2_ITERATIONS
        encryptionKey == deriveKey(masterPassword, salt, iterations)
        encrypted     == encryptData(jsonData, encryptionKey, iv)
        header        == [magic               |-> MAGIC_BYTES,
                          version             |-> FILE_VERSION,
                          encryptionAlgorithm |-> ENCRYPTION_ALGORITHM_AES_GCM,
                          kdfSalt             |-> salt,
                          kdfIterations       |-> iterations,
                          kdfMemory           |-> U32(65536),
                          kdfParallelism      |-> U32(4),
                          hmac                |-> Zeros(32)]
        headerBuffer  == serializeHeader(header)
        hmacKey       == createHMACKey(masterPassword, salt)
        hmac          == generateHMAC(headerBuffer, hmacKey)
        finalHeaderBuffer == serializeHeader([header EXCEPT !.hmac = hmac])
        fileSize      == HEADER_SIZE + Len(iv) + Len(encrypted)
        f1            == BufSet(Zeros(fileSize), finalHeaderBuffer, 0)
        f2            == BufSet(f1, iv, HEADER_SIZE)
        f3            == BufSet(f2, encrypted, HEADER_SIZE)
    IN  f3

\* format.ts:38-83 for the text jsonData, with the value of the constant
\* iterations of the build that writes the file
encodeWithIterations(jsonData, masterPassword, salt, iv, iterations) ==
    LET encryptionKey == deriveKey(masterPassword, salt, iterations)
        encrypted     == encryptData(jsonData, encryptionKey, iv)
        header        == [magic               |-> MAGIC_BYTES,
                          version             |-> FILE_VERSION,
                          encryptionAlgorithm |-> ENCRYPTION_ALGORITHM_AES_GCM,
                          kdfSalt             |-> salt,
                          kdfIterations       |-> iterations,
                          kdfMemory           |-> U32(65536),
                          kdfParallelism      |-> U32(4),
                          hmac                |-> Zeros(32)]
        headerBuffer  == serializeHeader(header)
        hmacKey       == createHMACKey(masterPassword, salt)
        hmac          == generateHMAC(headerBuffer, hmacKey)
        finalHeaderBuffer == serializeHeader([header EXCEPT !.hmac = hmac])
        fileSize      == HEADER_SIZE + Len(iv) + Len(encrypted)
        f1            == BufSet(Zeros(fileSize), finalHeaderBuffer, 0)
        f2            == BufSet(f1, iv, HEADER_SIZE)
        f3            == BufSet(f2, encrypted, HEADER_SIZE + Len(iv))
    IN  f3

\* encodePasswoodFile with the salt and nonce that getRandomValues returned
\* format.ts:36-83: the file for the text jsonData
encodeJsonData(jsonData, masterPassword, salt, iv) ==
    encodeWithIterations(jsonData, masterPassword, salt, iv, PBKDF2_ITERATIONS)

\* the salt and the nonce are constants instead of the values drawn
encodePasswoodFile_fixed(database, masterPassword, salt, iv) ==
    encodeJsonData(JSONStringify(database), masterPassword,
                   generateSalt(1), generateIV(1))

\* format.ts:29-83, with salt = generateSalt() and iv = generateIV()
encodePasswoodFile(database, masterPassword, salt, iv) ==
    encodeJsonData(JSONStringify(database), masterPassword, salt, iv)

----------------------------------------------------------------------------
(* Databases handed to the codec *)

S_version == <<"v">>
S_GitHub  == <<"G","i","t","H","u","b">>
S_GitLab  == <<"G","i","t","L","a","b">>
S_Email   == <<"E","m","a","i","l">>
S_me      == <<"m","e","@","x">>
S_secret  == <<"p","@","s","s">>
S_url     == <<"h","u","b",".","x">>
S_work    == <<"w","o","r","k">>
S_red     == <<"r","e","d">>

Db_empty ==
    [version |-> S_version, created |-> 1, modified |-> 1,
     passwords |-> <<>>, tags |-> Absent]

Db_one ==
    [version |-> S_version, created |-> 1, modified |-> 2,
     passwords |-> <<[id |-> 1, title |-> S_GitHub, login |-> S_me,
                      password |-> S_secret, url |-> Undefined,
                      notes |-> Undefined, tags |-> Some(<<S_work>>),
                      created |-> 2, modified |-> 2]>>,
     tags |-> Some(<<[id |-> 1, name |-> S_work, color |-> S_red]>>)]

Db_two ==
    [version |-> S_version, created |-> 1, modified |-> 3,
     passwords |-> <<[id |-> 1, title |-> S_work, login |-> <<>>,
                      password |-> S_red, url |-> Some(S_red),
                      notes |-> Some(<<>>), tags |-> Undefined,
                      created |-> 2, modified |-> 3],
                     [id |-> 2, title |-> S_red, login |-> <<>>,
                      password |-> <<>>, url |-> Absent,
                      notes |-> Absent, tags |-> Some(<<>>),
                      created |-> 3, modified |-> 3]>>,
     tags |-> Undefined]

Databases == {Db_one, Db_two}

\* the values JSON.parse can return for the texts of the model
JsonDomain == {AsParsed(db) : db \in Databases \cup {Db_empty}}

\* the text of every value of JsonDomain
JsonTexts == [v \in JsonDomain |-> JSONStringify(v)]

\* the text {} and the object JSON.parse builds from it: no property at all
S_emptyObject == <<LBRACE, RBRACE>>

EmptyObject == <<>>

\* JSON.parse: the value whose text this is; throws when there is none
JSONParse(text) ==
    IF \E v \in JsonDomain : JsonTexts[v] = text
    THEN [ok |-> TRUE, v |-> CHOOSE v \in JsonDomain : JsonTexts[v] = text]
    ELSE IF text = S_emptyObject
    THEN [ok |-> TRUE, v |-> EmptyObject]
    ELSE [ok |-> FALSE, v |-> Db_empty]

----------------------------------------------------------------------------
(* format.ts: decodePasswoodFile, one action per stretch between awaits *)

E_SMALL   == "Invalid file: too small"
E_MAGIC   == "Invalid file: incorrect magic bytes"
E_VERSION == "Unsupported file version"
E_HMAC    == "Invalid file: HMAC verification failed (file may be corrupted or tampered)"
E_DECRYPT == "Decryption failed: incorrect password or corrupted file"
E_JSON    == "Invalid file: corrupted database structure"

NoKey == deriveKey(0, Zeros(32), U32(0))

Throw(msg) ==
    /\ dpc' = "failed"
    /\ dError' = msg

\* a caller saves a database: handleSave (PasswordFileEditor) or handleCreate;
\* a run of the model stops saving once the stored bytes were tampered with
Encode(database, masterPassword, s, v) ==
    /\ dpc = "idle"
    /\ flipped = 0
    /\ file' = encodePasswoodFile(database, masterPassword,
                                  generateSalt(s), generateIV(v))
    /\ encDb' = database
    /\ encPw' = masterPassword
    /\ encSalt' = s
    /\ encIv' = v
    /\ reEncoded' = (/\ file # <<>>
                     /\ database = encDb /\ masterPassword = encPw
                     /\ <<s, v>> # <<encSalt, encIv>>)
    /\ UNCHANGED <<flipped, dpc, dPw, dHeader, dKey, dJson, dResult, dError,
                   dIsValid, dLog, errorPopupMessage>>
    /\ UNCHANGED <<editorVars, utilsVars, appVars>>

\* the bits of a byte that are flipped: the lowest, and the highest, which
\* takes an ASCII byte out of ASCII
FlipBits == {0, 7}

\* one bit of the stored bytes changes before they are read back
FlipBit ==
    /\ dpc = "idle"
    /\ file # <<>>
    /\ flipped = 0
    /\ \E i \in 1..Len(file), k \in FlipBits :
          /\ file' = [file EXCEPT ![i] = FlipBitOf(@, k)]
          /\ flipped' = i
    /\ UNCHANGED <<encDb, encPw, encSalt, encIv, dpc, dPw, dHeader, dKey, dJson,
                   dResult, dError, dIsValid, dLog, errorPopupMessage>>
    /\ reEncoded' = FALSE
    /\ UNCHANGED <<editorVars, utilsVars, appVars>>

\* a text that is no JSON, in a file of another writer that has the password
S_brace == <<LBRACE>>

\* the texts another writer stores: no JSON, and JSON that is no collection
ForeignTexts == {S_brace, S_emptyObject}

\* the file on the server was written by another program that has the master
\* password and stored a text that is not the JSON of a collection
StoreForeign(jsonData, masterPassword, s, v) ==
    /\ dpc = "idle"
    /\ flipped = 0
    /\ file' = encodeJsonData(jsonData, masterPassword, generateSalt(s), generateIV(v))
    /\ encDb' = Db_empty
    /\ encPw' = masterPassword
    /\ encSalt' = s
    /\ encIv' = v
    /\ flipped' = -1
    /\ UNCHANGED <<dpc, dPw, dHeader, dKey, dJson, dResult, dError, dIsValid, dLog,
                   errorPopupMessage>>
    /\ reEncoded' = FALSE
    /\ UNCHANGED <<editorVars, utilsVars, appVars>>

\* the iteration count of an earlier build
OLDER_ITERATIONS == U32(310000)

\* the file on the server was written by an earlier build of the program,
\* whose encodePasswoodFile had another value for iterations (format.ts:36)
StoreOlder(database, masterPassword, s, v) ==
    /\ dpc = "idle"
    /\ flipped = 0
    /\ file' = encodeWithIterations(JSONStringify(database), masterPassword,
                                    generateSalt(s), generateIV(v), OLDER_ITERATIONS)
    /\ encDb' = database
    /\ encPw' = masterPassword
    /\ encSalt' = s
    /\ encIv' = v
    /\ flipped' = -2
    /\ UNCHANGED <<dpc, dPw, dHeader, dKey, dJson, dResult, dError, dIsValid, dLog,
                   errorPopupMessage>>
    /\ reEncoded' = FALSE
    /\ UNCHANGED <<editorVars, utilsVars, appVars>>

\* the lengths a stored file is cut to
CutLengths == {1, HEADER_SIZE + IV_SIZE - 1, HEADER_SIZE + IV_SIZE}

\* the stored bytes end early when they are read back (downloadPasswordFile)
Truncate(n) ==
    /\ dpc = "idle"
    /\ flipped = 0
    /\ n < Len(file)
    /\ file' = SubSeq(file, 1, n)
    /\ flipped' = -1
    /\ UNCHANGED <<encDb, encPw, encSalt, encIv, dpc, dPw, dHeader, dKey, dJson,
                   dResult, dError, dIsValid, dLog, errorPopupMessage>>
    /\ reEncoded' = FALSE
    /\ UNCHANGED <<editorVars, utilsVars, appVars>>

\* the length check without the 12 bytes of the nonce
DecodeStart_headerOnly(masterPassword) ==
    /\ dpc = "idle"
    /\ file # <<>>
    /\ dPw' = masterPassword
    /\ dResult' = <<>>
    /\ dIsValid' = "pending"
    /\ dKey' = NoKey
    /\ dJson' = <<>>
    /\ IF Len(file) < HEADER_SIZE
       THEN Throw(E_SMALL) /\ dHeader' = NoHeader /\ dLog' = <<>>
       ELSE LET header == deserializeHeader(Slice(file, 0, HEADER_SIZE))
            IN  /\ dHeader' = header
                /\ IF header.magic # MAGIC_BYTES
                   THEN Throw(E_MAGIC) /\ dLog' = <<>>
                   ELSE IF header.version # FILE_VERSION
                   THEN Throw(E_VERSION) /\ dLog' = <<>>
                   ELSE /\ dpc' = "verifying"
                        /\ dError' = ""
                        /\ dLog' = <<"createHMACKey">>
    /\ UNCHANGED <<file, encDb, encPw, encSalt, encIv, flipped, errorPopupMessage>>
    /\ reEncoded' = FALSE
    /\ UNCHANGED <<editorVars, utilsVars, appVars>>

\* the version of the header is not looked at
DecodeStart_anyVersion(masterPassword) ==
    /\ dpc = "idle"
    /\ file # <<>>
    /\ dPw' = masterPassword
    /\ dResult' = <<>>
    /\ dIsValid' = "pending"
    /\ dKey' = NoKey
    /\ dJson' = <<>>
    /\ IF Len(file) < HEADER_SIZE + 12
       THEN Throw(E_SMALL) /\ dHeader' = NoHeader /\ dLog' = <<>>
       ELSE LET header == deserializeHeader(Slice(file, 0, HEADER_SIZE))
            IN  /\ dHeader' = header
                /\ IF header.magic # MAGIC_BYTES
                   THEN Throw(E_MAGIC) /\ dLog' = <<>>
                   ELSE IF FALSE
                   THEN Throw(E_VERSION) /\ dLog' = <<>>
                   ELSE /\ dpc' = "verifying"
                        /\ dError' = ""
                        /\ dLog' = <<"createHMACKey">>
    /\ UNCHANGED <<file, encDb, encPw, encSalt, encIv, flipped, errorPopupMessage>>
    /\ reEncoded' = FALSE
    /\ UNCHANGED <<editorVars, utilsVars, appVars>>

\* format.ts:92-111, up to the await of createHMACKey
DecodeStart(masterPassword) ==
    /\ dpc = "idle"
    /\ file # <<>>
    /\ dPw' = masterPassword
    /\ dResult' = <<>>
    /\ dIsValid' = "pending"
    /\ dKey' = NoKey
    /\ dJson' = <<>>
    /\ IF Len(file) < HEADER_SIZE + 12
       THEN Throw(E_SMALL) /\ dHeader' = NoHeader /\ dLog' = <<>>
       ELSE LET header == deserializeHeader(Slice(file, 0, HEADER_SIZE))
            IN  /\ dHeader' = header
                /\ IF header.magic # MAGIC_BYTES
                   THEN Throw(E_MAGIC) /\ dLog' = <<>>
                   ELSE IF header.version # FILE_VERSION
                   THEN Throw(E_VERSION) /\ dLog' = <<>>
                   ELSE /\ dpc' = "verifying"
                        /\ dError' = ""
                        /\ dLog' = <<"createHMACKey">>
    /\ UNCHANGED <<file, encDb, encPw, encSalt, encIv, flipped, errorPopupMessage>>
    /\ reEncoded' = FALSE
    /\ UNCHANGED <<editorVars, utilsVars, appVars>>

\* the decryption key derived before the outcome of verifyHMAC is looked at
DecodeVerifyHMAC_deriveFirst ==
    /\ dpc = "verifying"
    /\ LET hmacKey == createHMACKey(dPw, dHeader.kdfSalt)
           headerWithoutHMAC == HeaderWithoutHMAC(dHeader)
           isValid == verifyHMAC(headerWithoutHMAC, dHeader.hmac, hmacKey)
       IN  /\ dKey' = deriveKey(dPw, dHeader.kdfSalt, dHeader.kdfIterations)
           /\ dLog' = dLog \o <<"deriveKey", "verifyHMAC">>
           /\ IF ~isValid
              THEN Throw(E_HMAC) /\ dIsValid' = "false"
              ELSE dpc' = "deriving" /\ dIsValid' = "true" /\ UNCHANGED dError
    /\ UNCHANGED <<file, encDb, encPw, encSalt, encIv, flipped, errorPopupMessage, dPw, dHeader, dJson, dResult>>
    /\ reEncoded' = FALSE
    /\ UNCHANGED <<editorVars, utilsVars, appVars>>

\* the decryption key derived with the constant of the build
DecodeVerifyHMAC_constant ==
    /\ dpc = "verifying"
    /\ LET hmacKey == createHMACKey(dPw, dHeader.kdfSalt)
           headerWithoutHMAC == HeaderWithoutHMAC(dHeader)
           isValid == verifyHMAC(headerWithoutHMAC, dHeader.hmac, hmacKey)
       IN  IF ~isValid
           THEN /\ Throw(E_HMAC)
                /\ dIsValid' = "false"
                /\ dLog' = dLog \o <<"verifyHMAC">>
                /\ UNCHANGED dKey
           ELSE /\ dpc' = "deriving"
                /\ dIsValid' = "true"
                /\ dLog' = dLog \o <<"verifyHMAC", "deriveKey">>
                /\ dKey' = deriveKey(dPw, dHeader.kdfSalt, PBKDF2_ITERATIONS)
                /\ UNCHANGED dError
    /\ UNCHANGED <<file, encDb, encPw, encSalt, encIv, flipped, errorPopupMessage, dPw, dHeader, dJson, dResult>>
    /\ reEncoded' = FALSE
    /\ UNCHANGED <<editorVars, utilsVars, appVars>>

\* format.ts:111-130, from the HMAC key to the await of deriveKey
DecodeVerifyHMAC ==
    /\ dpc = "verifying"
    /\ LET hmacKey == createHMACKey(dPw, dHeader.kdfSalt)
           headerWithoutHMAC == HeaderWithoutHMAC(dHeader)
           isValid == verifyHMAC(headerWithoutHMAC, dHeader.hmac, hmacKey)
       IN  IF ~isValid
           THEN /\ Throw(E_HMAC)
                /\ dIsValid' = "false"
                /\ dLog' = dLog \o <<"verifyHMAC">>
                /\ UNCHANGED dKey
           ELSE /\ dpc' = "deriving"
                /\ dIsValid' = "true"
                /\ dLog' = dLog \o <<"verifyHMAC", "deriveKey">>
                /\ dKey' = deriveKey(dPw, dHeader.kdfSalt, dHeader.kdfIterations)
                /\ UNCHANGED dError
    /\ UNCHANGED <<file, encDb, encPw, encSalt, encIv, flipped, errorPopupMessage, dPw, dHeader, dJson, dResult>>
    /\ reEncoded' = FALSE
    /\ UNCHANGED <<editorVars, utilsVars, appVars>>

\* format.ts:119-138, from the decryption key to the result of decryptData
DecodeDecrypt ==
    /\ dpc = "deriving"
    /\ LET iv == Slice(file, HEADER_SIZE, HEADER_SIZE + 12)
           encryptedData == Slice(file, HEADER_SIZE + 12, Len(file))
           plain == decryptData(encryptedData, dKey, iv)
       IN  /\ dLog' = dLog \o <<"decryptData">>
           /\ IF ~plain.ok
              THEN Throw(E_DECRYPT) /\ UNCHANGED dJson
              ELSE /\ dpc' = "parsing"
                   /\ dJson' = plain.text
                   /\ UNCHANGED dError
    /\ UNCHANGED <<file, encDb, encPw, encSalt, encIv, flipped, errorPopupMessage, dPw, dHeader, dKey, dResult, dIsValid>>
    /\ reEncoded' = FALSE
    /\ UNCHANGED <<editorVars, utilsVars, appVars>>

\* format.ts:140-146
DecodeParse ==
    /\ dpc = "parsing"
    /\ LET parsed == JSONParse(dJson)
       IN  IF ~parsed.ok
           THEN Throw(E_JSON) /\ UNCHANGED dResult
           ELSE /\ dpc' = "done"
                /\ dResult' = <<parsed.v>>
                /\ UNCHANGED dError
    /\ UNCHANGED <<file, encDb, encPw, encSalt, encIv, flipped, errorPopupMessage, dPw, dHeader, dKey, dJson,
                   dIsValid, dLog>>
    /\ reEncoded' = FALSE
    /\ UNCHANGED <<editorVars, utilsVars, appVars>>

S_IncorrectPassword == <<"I","n","c","o","r","r","e","c","t"," ",
                         "p","a","s","s","w","o","r","d">>

\* UnlockDialog.handleUnlock after the await of decodePasswoodFile: the then
\* branch, or the catch branch for whatever was thrown (part_016:39-49)
DecodeFinish ==
    /\ dpc \in {"done", "failed"}
    /\ IF dpc = "failed"
       THEN errorPopupMessage' = S_IncorrectPassword
       ELSE UNCHANGED errorPopupMessage
    /\ dpc' = "idle"
    /\ dPw' = 0
    /\ dHeader' = NoHeader
    /\ dKey' = NoKey
    /\ dJson' = <<>>
    /\ dResult' = <<>>
    /\ dError' = ""
    /\ dIsValid' = "pending"
    /\ dLog' = <<>>
    /\ UNCHANGED <<file, encDb, encPw, encSalt, encIv, flipped>>
    /\ reEncoded' = FALSE
    /\ UNCHANGED <<editorVars, utilsVars, appVars>>

InitCodec ==
    /\ file = <<>>
    /\ encDb = Db_empty
    /\ encPw = 0
    /\ flipped = 0
    /\ dpc = "idle"
    /\ dPw = 0
    /\ dHeader = NoHeader
    /\ dKey = NoKey
    /\ dJson = <<>>
    /\ dResult = <<>>
    /\ dError = ""
    /\ dIsValid = "pending"
    /\ dLog = <<>>
    /\ encSalt = 0
    /\ encIv = 0
    /\ errorPopupMessage = <<>>
    /\ reEncoded = FALSE

NextCodec ==
    \/ \E db \in Databases, pw \in Passwords, s \in 1..MaxSalt, v \in 1..MaxIv :
          Encode(db, pw, s, v)
    \/ FlipBit
    \/ \E t \in ForeignTexts, pw \in Passwords, s \in 1..MaxSalt, v \in 1..MaxIv :
          StoreForeign(t, pw, s, v)
    \/ \E db \in Databases, pw \in Passwords, s \in 1..MaxSalt, v \in 1..MaxIv :
          StoreOlder(db, pw, s, v)
    \/ \E n \in CutLengths : Truncate(n)
    \/ \E pw \in Passwords : DecodeStart(pw)
    \/ DecodeVerifyHMAC
    \/ DecodeDecrypt
    \/ DecodeParse
    \/ DecodeFinish

----------------------------------------------------------------------------
(* PasswordFileEditor and TagsDialog: the tag list and its cascade *)

S_home   == <<"h","o","m","e">>
S_job    == <<"j","o","b">>
S_WorkSp == <<"W","o","r","k"," ">>
S_blank  == <<" ">>
S_NewTag == <<"N","e","w"," ","T","a","g">>

\* TAG_COLORS[0]
TAG_COLOR_0 == S_red

\* what the user types into the name input
NameInputs == {S_job, S_work, S_WorkSp, S_blank}

\* the collection the editor is opened with (initialCollection)
EditorDb ==
    [version |-> S_version, created |-> 1, modified |-> 3,
     passwords |-> <<[id |-> 1, title |-> S_GitHub, login |-> S_me,
                      password |-> S_secret, url |-> Some(S_url),
                      notes |-> Undefined, tags |-> Some(<<S_work, S_home>>),
                      created |-> 2, modified |-> 2],
                     [id |-> 2, title |-> S_Email, login |-> S_me,
                      password |-> S_secret, url |-> Absent,
                      notes |-> Absent, tags |-> Some(<<S_work>>),
                      created |-> 3, modified |-> 3],
                     [id |-> 3, title |-> S_GitLab, login |-> S_me,
                      password |-> S_secret, url |-> Absent,
                      notes |-> Absent, tags |-> Absent,
                      created |-> 3, modified |-> 3]>>,
     tags |-> Some(<<[id |-> 1, name |-> S_work, color |-> S_red],
                     [id |-> 2, name |-> S_home, color |-> S_red]>>)]

\* collection.tags || []
TagsOrEmpty(c) == IF c.tags.st = "value" THEN c.tags.v ELSE <<>>

\* tags.find(t => t.id === id): <<>> for undefined, else <<tag>>
FindTag(tags, id) ==
    LET hits == SelectSeq(tags, LAMBDA t : t.id = id)
    IN  IF hits = <<>> THEN <<>> ELSE <<hits[1]>>

\* tags.map(tag => tag.id === id ? { ...tag, name } : tag)
WithName(tags, id, name) ==
    [i \in 1..Len(tags) |->
        IF tags[i].id = id THEN [tags[i] EXCEPT !.name = name] ELSE tags[i]]

\* tags.filter(tag => tag.id !== id)
WithoutTag(tags, id) == SelectSeq(tags, LAMBDA t : t.id # id)

\* editedTags.some(t => t.id !== id &&
\*     t.name.trim().toLowerCase() === trimmedName.toLowerCase())
isDuplicate(tags, id, trimmedName) ==
    \E i \in 1..Len(tags) :
        /\ tags[i].id # id
        /\ toLowerCase(trim(tags[i].name)) = toLowerCase(trimmedName)

\* newTags.splice(draggedIndex, 1); newTags.splice(dragOverIndex, 0, draggedTag)
\* with positions counted from 1
MoveTag(tags, from, to) ==
    LET rest == SubSeq(tags, 1, from - 1) \o SubSeq(tags, from + 1, Len(tags))
    IN  SubSeq(rest, 1, to - 1) \o <<tags[from]>> \o SubSeq(rest, to, Len(rest))

\* password.tags?.map(tag => tag === oldName ? newName : tag) in a spread
RenameInPassword(password, oldName, newName) ==
    [password EXCEPT !.tags =
        IF password.tags.st = "value"
        THEN Some([i \in 1..Len(password.tags.v) |->
                     IF password.tags.v[i] = oldName THEN newName
                     ELSE password.tags.v[i]])
        ELSE Undefined]

\* password.tags?.filter(tag => tag !== deletedName) in a spread
DeleteInPassword(password, deletedName) ==
    [password EXCEPT !.tags =
        IF password.tags.st = "value"
        THEN Some(SelectSeq(password.tags.v, LAMBDA n : n # deletedName))
        ELSE Undefined]

RECURSIVE ApplyRenames(_, _)
\* renamedTags.forEach(({ oldName, newName }) => ...)
ApplyRenames(passwords, renamed) ==
    IF renamed = <<>> THEN passwords
    ELSE ApplyRenames(
            [i \in 1..Len(passwords) |->
                RenameInPassword(passwords[i], renamed[1].oldName, renamed[1].newName)],
            Tail(renamed))

RECURSIVE ApplyDeletes(_, _)
\* deletedTagNames.forEach(deletedName => ...)
ApplyDeletes(passwords, deleted) ==
    IF deleted = <<>> THEN passwords
    ELSE ApplyDeletes(
            [i \in 1..Len(passwords) |-> DeleteInPassword(passwords[i], deleted[1])],
            Tail(deleted))

\* PasswordFileEditor.handleSaveTags: the collection it sets
SaveTagsCollection(c, tags, renamed, deleted) ==
    [c EXCEPT !.tags = Some(tags),
              !.passwords = ApplyDeletes(ApplyRenames(c.passwords, renamed), deleted)]

editorRest == <<collection, hasUnsavedChanges, originalTags, saves, savedUpTo>>

\* one more step of the user, while the budget lasts
Step == steps < MaxSteps /\ steps' = steps + 1

\* PasswordFileEditor.handleManageTags
HandleManageTags ==
    /\ Step
    /\ ~showTagsDialog
    /\ showTagsDialog' = TRUE
    /\ UNCHANGED <<editorRest, editedTags, editingId, renamedTags, deletedTagNames,
                   deleteConfirm, showErrorPopup, nextTagId, editStart, abandoned>>
    /\ UNCHANGED <<codecVars, utilsVars, savingVars, appVars>>

\* Dialog.Close: onOpenChange(false); the state of the dialog stays
CloseTagsDialog ==
    /\ Step
    /\ showTagsDialog /\ editingId = 0 /\ deleteConfirm = <<>>
    /\ showTagsDialog' = FALSE
    /\ UNCHANGED <<editorRest, editedTags, editingId, renamedTags, deletedTagNames,
                   deleteConfirm, showErrorPopup, nextTagId, editStart, abandoned>>
    /\ UNCHANGED <<codecVars, utilsVars, savingVars, appVars>>

\* TagsDialog.handleAddTag
HandleAddTag ==
    /\ Step
    /\ showTagsDialog /\ editingId = 0 /\ deleteConfirm = <<>>
    /\ editedTags' = Append(editedTags,
                            [id |-> nextTagId, name |-> S_NewTag, color |-> TAG_COLOR_0])
    /\ editingId' = nextTagId
    /\ nextTagId' = nextTagId + 1
    /\ editStart' = S_NewTag
    /\ UNCHANGED <<editorRest, showTagsDialog, renamedTags, deletedTagNames,
                   deleteConfirm, showErrorPopup, abandoned>>
    /\ UNCHANGED <<codecVars, utilsVars, savingVars, appVars>>

\* TagsDialog.handleDeleteTag(tag.id, tag.name)
HandleDeleteTag(i) ==
    /\ Step
    /\ showTagsDialog /\ editingId = 0 /\ deleteConfirm = <<>>
    /\ i \in 1..Len(editedTags)
    /\ deleteConfirm' = <<[id |-> editedTags[i].id, name |-> editedTags[i].name]>>
    /\ UNCHANGED <<editorRest, showTagsDialog, editedTags, editingId, renamedTags,
                   deletedTagNames, showErrorPopup, nextTagId, editStart, abandoned>>
    /\ UNCHANGED <<codecVars, utilsVars, savingVars, appVars>>

\* TagsDialog.confirmDeleteTag
ConfirmDeleteTag ==
    /\ Step
    /\ showTagsDialog /\ deleteConfirm # <<>>
    /\ deletedTagNames' = Append(deletedTagNames, deleteConfirm[1].name)
    /\ editedTags' = WithoutTag(editedTags, deleteConfirm[1].id)
    /\ deleteConfirm' = <<>>
    /\ UNCHANGED <<editorRest, showTagsDialog, editingId, renamedTags,
                   showErrorPopup, nextTagId, editStart, abandoned>>
    /\ UNCHANGED <<codecVars, utilsVars, savingVars, appVars>>

\* the Cancel button of the delete confirmation: setDeleteConfirm(null)
CancelDeleteTag ==
    /\ Step
    /\ showTagsDialog /\ deleteConfirm # <<>>
    /\ deleteConfirm' = <<>>
    /\ UNCHANGED <<editorRest, showTagsDialog, editedTags, editingId, renamedTags,
                   deletedTagNames, showErrorPopup, nextTagId, editStart, abandoned>>
    /\ UNCHANGED <<codecVars, utilsVars, savingVars, appVars>>

\* TagsDialog.handleStartEdit(tag)
HandleStartEdit(i) ==
    /\ Step
    /\ showTagsDialog /\ editingId = 0 /\ deleteConfirm = <<>>
    /\ i \in 1..Len(editedTags)
    /\ editingId' = editedTags[i].id
    /\ editStart' = editedTags[i].name
    /\ UNCHANGED <<editorRest, showTagsDialog, editedTags, renamedTags, deletedTagNames,
                   deleteConfirm, showErrorPopup, nextTagId, abandoned>>
    /\ UNCHANGED <<codecVars, utilsVars, savingVars, appVars>>

\* TagsDialog.handleNameChange(tag.id, e.target.value)
HandleNameChange(newName) ==
    /\ Step
    /\ showTagsDialog /\ editingId # 0
    /\ editedTags' = WithName(editedTags, editingId, newName)
    /\ editedTags' # editedTags
    /\ UNCHANGED <<editorRest, showTagsDialog, editingId, renamedTags, deletedTagNames,
                   deleteConfirm, showErrorPopup, nextTagId, editStart, abandoned>>
    /\ UNCHANGED <<codecVars, utilsVars, savingVars, appVars>>

\* TagsDialog.handleFinishEdit(tag.id), on Enter and on blur
HandleFinishEdit ==
    /\ Step
    /\ showTagsDialog /\ editingId # 0
    /\ LET id          == editingId
           editedTag   == FindTag(editedTags, id)
           originalTag == FindTag(originalTags, id)
           trimmedName == trim(editedTag[1].name)
       IN  IF editedTag = <<>> \/ trim(editedTag[1].name) = <<>>
           THEN /\ IF originalTag # <<>>
                   THEN /\ editedTags' = WithName(editedTags, id, originalTag[1].name)
                        /\ showErrorPopup' = TRUE
                   ELSE /\ editedTags' = WithoutTag(editedTags, id)
                        /\ UNCHANGED showErrorPopup
                /\ abandoned' = TRUE
                /\ UNCHANGED renamedTags
           ELSE IF isDuplicate(editedTags, id, trimmedName)
           THEN /\ IF originalTag # <<>>
                   THEN editedTags' = WithName(editedTags, id, originalTag[1].name)
                   ELSE editedTags' = WithoutTag(editedTags, id)
                /\ showErrorPopup' = TRUE
                /\ abandoned' = TRUE
                /\ UNCHANGED renamedTags
           ELSE /\ editedTags' = WithName(editedTags, id, trimmedName)
                /\ IF originalTag # <<>> /\ trimmedName # originalTag[1].name
                   THEN renamedTags' = Append(renamedTags,
                            [oldName |-> originalTag[1].name, newName |-> trimmedName])
                   ELSE UNCHANGED renamedTags
                /\ UNCHANGED <<showErrorPopup, abandoned>>
    /\ editingId' = 0
    /\ editStart' = <<>>
    /\ UNCHANGED <<editorRest, showTagsDialog, deletedTagNames, deleteConfirm,
                   nextTagId>>
    /\ UNCHANGED <<codecVars, utilsVars, savingVars, appVars>>

\* the Escape key in the name input: setEditingId(null)
EscapeEdit ==
    /\ Step
    /\ showTagsDialog /\ editingId # 0
    /\ editingId' = 0
    /\ editStart' = <<>>
    /\ abandoned' = TRUE
    /\ UNCHANGED <<editorRest, showTagsDialog, editedTags, renamedTags, deletedTagNames,
                   deleteConfirm, showErrorPopup, nextTagId>>
    /\ UNCHANGED <<codecVars, utilsVars, savingVars, appVars>>

\* setTimeout(() => setShowErrorPopup(false), 2000)
HideErrorPopup ==
    /\ Step
    /\ showErrorPopup
    /\ showErrorPopup' = FALSE
    /\ UNCHANGED <<editorRest, showTagsDialog, editedTags, editingId, renamedTags,
                   deletedTagNames, deleteConfirm, nextTagId, editStart, abandoned>>
    /\ UNCHANGED <<codecVars, utilsVars, savingVars, appVars>>

\* TagsDialog.handleDragStart, handleDragOver and handleDragEnd of one drag
HandleDrag(from, to) ==
    /\ Step
    /\ showTagsDialog /\ editingId = 0 /\ deleteConfirm = <<>>
    /\ from \in 1..Len(editedTags) /\ to \in 1..Len(editedTags)
    /\ from # to
    /\ editedTags' = MoveTag(editedTags, from, to)
    /\ UNCHANGED <<editorRest, showTagsDialog, editingId, renamedTags, deletedTagNames,
                   deleteConfirm, showErrorPopup, nextTagId, editStart, abandoned>>
    /\ UNCHANGED <<codecVars, utilsVars, savingVars, appVars>>

\* TagsDialog.handleSave, which calls PasswordFileEditor.handleSaveTags
HandleSave ==
    /\ Step
    /\ showTagsDialog /\ editingId = 0 /\ deleteConfirm = <<>>
    /\ collection' = SaveTagsCollection(collection, editedTags, renamedTags,
                                        deletedTagNames)
    /\ hasUnsavedChanges' = TRUE
    /\ showTagsDialog' = FALSE
    /\ saves' = saves + 1
    /\ savedUpTo' = <<Len(renamedTags), Len(deletedTagNames)>>
    /\ UNCHANGED <<originalTags, editedTags, editingId, renamedTags, deletedTagNames,
                   deleteConfirm, showErrorPopup, nextTagId, editStart, abandoned>>
    /\ UNCHANGED <<codecVars, utilsVars, savingVars, appVars>>

InitEditor ==
    /\ collection = EditorDb
    /\ showTagsDialog = FALSE
    /\ hasUnsavedChanges = FALSE
    /\ editedTags = TagsOrEmpty(EditorDb)
    /\ editingId = 0
    /\ originalTags = TagsOrEmpty(EditorDb)
    /\ renamedTags = <<>>
    /\ deletedTagNames = <<>>
    /\ deleteConfirm = <<>>
    /\ showErrorPopup = FALSE
    /\ nextTagId = 3
    /\ editStart = <<>>
    /\ abandoned = FALSE
    /\ saves = 0
    /\ savedUpTo = <<0, 0>>
    /\ steps = 0
    /\ saving = "idle"
    /\ updatedDb = EditorDb
    /\ persisted = AsParsed(EditorDb)
    /\ aliased = {}
    /\ calls = 0
    /\ lastHandler = ""

NextEditor ==
    \/ HandleManageTags
    \/ CloseTagsDialog
    \/ HandleAddTag
    \/ \E i \in 1..Len(editedTags) : HandleDeleteTag(i)
    \/ ConfirmDeleteTag
    \/ CancelDeleteTag
    \/ \E i \in 1..Len(editedTags) : HandleStartEdit(i)
    \/ \E newName \in NameInputs : HandleNameChange(newName)
    \/ HandleFinishEdit
    \/ EscapeEdit
    \/ HideErrorPopup
    \/ \E from \in 1..Len(editedTags), to \in 1..Len(editedTags) : HandleDrag(from, to)
    \/ HandleSave

----------------------------------------------------------------------------
(* utils.ts: the functions on a collection, called one after the other *)

S_Mail  == <<"M","a","i","l">>
S_Hubby == <<"H","u","b","b","y">>
S_git   == <<"g","i","t">>
S_HUB   == <<"H","U","B">>
S_hub   == <<"h","u","b">>
S_x     == <<"x">>

\* createEmptyCollection at time now
createEmptyCollection(now) ==
    [version |-> S_version, created |-> now, modified |-> now,
     passwords |-> <<>>, tags |-> Absent]

\* createPassword with the id generatePasswordId returns
createPassword(id, title, login, password, url, notes, tags, now) ==
    [id |-> id, title |-> title, login |-> login, password |-> password,
     url |-> url, notes |-> notes, tags |-> tags,
     created |-> now, modified |-> now]

\* the new record put in front of the others
addPassword_prepend(db, password, now) ==
    [db EXCEPT !.modified = now, !.passwords = <<password>> \o db.passwords]

addPassword(db, password, now) ==
    [db EXCEPT !.modified = now, !.passwords = Append(db.passwords, password)]

\* the updated record is made anew: next id, created at the time of the update
SpreadUpdates_recreate(password, updates, now) ==
    [title    |-> IF updates.title.st = "value" THEN updates.title.v
                  ELSE password.title,
     login    |-> IF updates.login.st = "value" THEN updates.login.v
                  ELSE password.login,
     password |-> IF updates.password.st = "value" THEN updates.password.v
                  ELSE password.password,
     url      |-> IF updates.url.st = "absent" THEN password.url ELSE updates.url,
     notes    |-> IF updates.notes.st = "absent" THEN password.notes ELSE updates.notes,
     tags     |-> IF updates.tags.st = "absent" THEN password.tags ELSE updates.tags,
     id       |-> password.id + 1,
     created  |-> now,
     modified |-> now]

\* { ...password, ...updates, modified: now }: a property of updates that is
\* present, even with the value undefined, replaces the one of password
SpreadUpdates(password, updates, now) ==
    [title    |-> IF updates.title.st = "value" THEN updates.title.v
                  ELSE password.title,
     login    |-> IF updates.login.st = "value" THEN updates.login.v
                  ELSE password.login,
     password |-> IF updates.password.st = "value" THEN updates.password.v
                  ELSE password.password,
     url      |-> IF updates.url.st = "absent" THEN password.url ELSE updates.url,
     notes    |-> IF updates.notes.st = "absent" THEN password.notes ELSE updates.notes,
     tags     |-> IF updates.tags.st = "absent" THEN password.tags ELSE updates.tags,
     id       |-> password.id,
     created  |-> password.created,
     modified |-> now]

updatePassword(db, passwordId, updates, now) ==
    [db EXCEPT !.modified = now,
               !.passwords = [i \in 1..Len(db.passwords) |->
                    IF db.passwords[i].id = passwordId
                    THEN SpreadUpdates(db.passwords[i], updates, now)
                    ELSE db.passwords[i]]]

\* a delete that also refreshes the modified time of the records it keeps
deletePassword_touch(db, passwordId, now) ==
    [db EXCEPT !.modified = now,
               !.passwords = [i \in 1..Len(SelectSeq(db.passwords, LAMBDA p : p.id # passwordId)) |->
                    [SelectSeq(db.passwords, LAMBDA p : p.id # passwordId)[i]
                        EXCEPT !.modified = now]]]

deletePassword(db, passwordId, now) ==
    [db EXCEPT !.modified = now,
               !.passwords = SelectSeq(db.passwords, LAMBDA p : p.id # passwordId)]

\* password.url?.toLowerCase().includes(lowerQuery)
UrlIncludes(password, lowerQuery) ==
    /\ password.url.st = "value"
    /\ includes(toLowerCase(password.url.v), lowerQuery)

\* password.tags?.some(tag => tag.toLowerCase().includes(lowerQuery))
TagsInclude(password, lowerQuery) ==
    /\ password.tags.st = "value"
    /\ \E i \in 1..Len(password.tags.v) :
          includes(toLowerCase(password.tags.v[i]), lowerQuery)

\* searchPasswords also looking into the notes
searchPasswords_notes(db, query) ==
    LET lowerQuery == toLowerCase(query)
    IN  SelectSeq(db.passwords, LAMBDA password :
            \/ includes(toLowerCase(password.title), lowerQuery)
            \/ includes(toLowerCase(password.login), lowerQuery)
            \/ UrlIncludes(password, lowerQuery)
            \/ TagsInclude(password, lowerQuery)
            \/ (password.notes.st = "value"
                /\ includes(toLowerCase(password.notes.v), lowerQuery)))

searchPasswords(db, query) ==
    LET lowerQuery == toLowerCase(query)
    IN  SelectSeq(db.passwords, LAMBDA password :
            \/ includes(toLowerCase(password.title), lowerQuery)
            \/ includes(toLowerCase(password.login), lowerQuery)
            \/ UrlIncludes(password, lowerQuery)
            \/ TagsInclude(password, lowerQuery))

\* the arguments of createPassword the model tries
Entries ==
    { [title |-> S_GitHub, login |-> S_me, password |-> S_secret,
       url |-> Some(S_url), notes |-> Undefined, tags |-> Some(<<S_work>>)],
      [title |-> S_Email, login |-> S_x, password |-> S_Hubby,
       url |-> Undefined, notes |-> Some(S_git), tags |-> Some(<<S_red, S_HUB>>)] }

\* the updates of updatePassword the model tries
Updates ==
    { [title |-> Some(S_Mail), login |-> Absent, password |-> Absent,
       url |-> Undefined, notes |-> Absent, tags |-> Some(<<S_hub>>)] }

\* the queries of searchPasswords the model tries
Queries == {<<>>, S_HUB, S_git, S_secret, S_x}

NoCall == [fn |-> "", passwordId |-> 0, query |-> <<>>,
           before |-> createEmptyCollection(0), argument |-> createEmptyCollection(0)]

\* new Date(): the clock may have advanced since the last call
Tick ==
    /\ clock < MaxClock
    /\ clock' = clock + 1
    /\ UNCHANGED <<vault, nextPasswordId, lastCall, returned, thrown>>
    /\ UNCHANGED <<codecVars, editorVars, appVars>>

\* addPassword(database, createPassword(...))
AddPassword(e) ==
    /\ nextPasswordId <= MaxPasswords
    /\ vault' = addPassword(vault,
                      createPassword(nextPasswordId, e.title, e.login, e.password,
                                     e.url, e.notes, e.tags, clock),
                      clock)
    /\ nextPasswordId' = nextPasswordId + 1
    /\ lastCall' = [fn |-> "addPassword", passwordId |-> nextPasswordId,
                    query |-> <<>>, before |-> vault,
                    argument |-> vault]
    /\ returned' = <<>>
    /\ thrown' = ""
    /\ UNCHANGED clock
    /\ UNCHANGED <<codecVars, editorVars, appVars>>

\* updatePassword(database, passwordId, updates)
UpdatePassword(passwordId, updates) ==
    /\ vault' = updatePassword(vault, passwordId, updates, clock)
    /\ lastCall' = [fn |-> "updatePassword", passwordId |-> passwordId,
                    query |-> <<>>, before |-> vault,
                    argument |-> vault]
    /\ returned' = <<>>
    /\ thrown' = ""
    /\ UNCHANGED <<clock, nextPasswordId>>
    /\ UNCHANGED <<codecVars, editorVars, appVars>>

\* deletePassword(database, passwordId)
DeletePassword(passwordId) ==
    /\ vault' = deletePassword(vault, passwordId, clock)
    /\ lastCall' = [fn |-> "deletePassword", passwordId |-> passwordId,
                    query |-> <<>>, before |-> vault,
                    argument |-> vault]
    /\ returned' = <<>>
    /\ thrown' = ""
    /\ UNCHANGED <<clock, nextPasswordId>>
    /\ UNCHANGED <<codecVars, editorVars, appVars>>

\* searchPasswords(database, query)
SearchPasswords(query) ==
    /\ returned' = searchPasswords(vault, query)
    /\ lastCall' = [fn |-> "searchPasswords", passwordId |-> 0,
                    query |-> query, before |-> vault,
                    argument |-> vault]
    /\ thrown' = ""
    /\ UNCHANGED <<vault, clock, nextPasswordId>>
    /\ UNCHANGED <<codecVars, editorVars, appVars>>

InitUtils ==
    /\ clock = 1
    /\ vault = createEmptyCollection(1)
    /\ nextPasswordId = 1
    /\ lastCall = NoCall
    /\ returned = <<>>
    /\ thrown = ""

NextUtils ==
    \/ Tick
    \/ \E e \in Entries : AddPassword(e)
    \/ \E passwordId \in 1..(MaxPasswords + 1), updates \in Updates :
          UpdatePassword(passwordId, updates)
    \/ \E passwordId \in 1..(MaxPasswords + 1) : DeletePassword(passwordId)
    \/ \E query \in Queries : SearchPasswords(query)

----------------------------------------------------------------------------
(* PasswordFileEditor: the records and the save to the server *)

\* a sorts before b in the order of Array.prototype.sort(): by code units
RECURSIVE StrLess(_, _)
StrLess(a, b) ==
    IF b = <<>> THEN FALSE
    ELSE IF a = <<>> THEN TRUE
    ELSE IF CharCode(Head(a)) # CharCode(Head(b))
         THEN CharCode(Head(a)) < CharCode(Head(b))
    ELSE StrLess(Tail(a), Tail(b))

\* Array.prototype.sort() on an array of strings
RECURSIVE ArraySort(_)
ArraySort(arr) ==
    IF arr = <<>> THEN <<>>
    ELSE LET rest == ArraySort(SubSeq(arr, 1, Len(arr) - 1))
             x == arr[Len(arr)]
         IN  SelectSeq(rest, LAMBDA y : ~StrLess(x, y)) \o <<x>>
                \o SelectSeq(rest, LAMBDA y : StrLess(x, y))

\* tags?.sort(): the array itself is sorted
SortOpt(o) == IF o.st = "value" THEN Some(ArraySort(o.v)) ELSE o

\* x || '' and x || []
OrEmpty(o) == IF o.st = "value" THEN o.v ELSE <<>>

\* x || undefined, and tags.length > 0 ? tags : undefined
OrUndefined(x) == IF x = <<>> THEN Undefined ELSE Some(x)

\* EntryDialog: what handleSave hands to onSave when the form is saved as the
\* dialog filled it in from the record; the tag names of the model have no
\* comma and no space, so join, split and trim give them back in their order
EntryFormData(password) ==
    [title    |-> password.title,
     login    |-> password.login,
     password |-> password.password,
     url      |-> OrUndefined(OrEmpty(password.url)),
     notes    |-> OrUndefined(OrEmpty(password.notes)),
     tags     |-> OrUndefined(OrEmpty(password.tags))]

\* the form of a new record
NewEntryData ==
    [title |-> S_Hubby, login |-> S_x, password |-> S_secret,
     url |-> Undefined, notes |-> Undefined, tags |-> Some(<<S_red, S_home>>)]

\* what the user saves in the entry dialog: for a record of the collection
\* the form as it is or with another title, for no record a new form
EntryInputs(c, i) ==
    IF i = 0 THEN {NewEntryData}
    ELSE {EntryFormData(c.passwords[i]),
          [EntryFormData(c.passwords[i]) EXCEPT !.title = S_Mail]}

\* the data of the entry dialog as the updates argument of updatePassword:
\* every property is present
AsUpdates(data) ==
    [title |-> Some(data.title), login |-> Some(data.login),
     password |-> Some(data.password),
     url |-> data.url, notes |-> data.notes, tags |-> data.tags]

\* handleSaveEntry: hasChanges, after both tag arrays were sorted
HasChanges(editingPassword, data) ==
    \/ editingPassword.title # data.title
    \/ editingPassword.login # data.login
    \/ editingPassword.password # data.password
    \/ OrEmpty(editingPassword.url) # OrEmpty(data.url)
    \/ OrEmpty(editingPassword.notes) # OrEmpty(data.notes)
    \/ OrEmpty(editingPassword.tags) # OrEmpty(data.tags)

\* the tags array of the record passwordId of db sorted where it is
SortedInPlace(db, passwordId) ==
    [db EXCEPT !.passwords = [k \in 1..Len(@) |->
        IF @[k].id = passwordId THEN [@[k] EXCEPT !.tags = SortOpt(@)] ELSE @[k]]]

\* new Date() when the next handler runs: later than every time in EditorDb
EditorNow == 4 + calls

\* crypto.randomUUID() in the next handler: no id of EditorDb
NewPasswordId == 4 + calls

\* one more handler call of the user, while the budget lasts
Call == calls < MaxCalls /\ calls' = calls + 1

tagDialogVars == <<showTagsDialog, editedTags, editingId, originalTags, renamedTags,
                   deletedTagNames, deleteConfirm, showErrorPopup, nextTagId,
                   editStart, abandoned, saves, savedUpTo, steps>>

\* PasswordFileEditor.handleSaveEntry, for the record i of the collection in
\* editingPassword, or for editingPassword = null when i = 0
HandleSaveEntry(i, data) ==
    /\ Call
    /\ ~showTagsDialog
    /\ IF i = 0
       THEN /\ collection' = addPassword(collection,
                                createPassword(NewPasswordId, data.title, data.login,
                                               data.password, data.url, data.notes,
                                               data.tags, EditorNow),
                                EditorNow)
            /\ hasUnsavedChanges' = TRUE
            /\ lastHandler' = "add"
            /\ UNCHANGED <<updatedDb, aliased>>
       ELSE LET id == collection.passwords[i].id
                sorted == SortedInPlace(collection, id)
                editingPassword == sorted.passwords[i]
                sortedData == [data EXCEPT !.tags = SortOpt(@)]
            IN  /\ updatedDb' = IF id \in aliased THEN SortedInPlace(updatedDb, id)
                                ELSE updatedDb
                /\ IF ~HasChanges(editingPassword, sortedData)
                   THEN /\ collection' = sorted
                        /\ lastHandler' = "unchanged"
                        /\ UNCHANGED <<hasUnsavedChanges, aliased>>
                   ELSE /\ collection' = updatePassword(sorted, id,
                                             AsUpdates(sortedData), EditorNow)
                        /\ hasUnsavedChanges' = TRUE
                        /\ lastHandler' = "update"
                        /\ aliased' = aliased \ {id}
    /\ UNCHANGED <<saving, persisted, tagDialogVars>>
    /\ UNCHANGED <<codecVars, utilsVars, appVars>>

\* PasswordFileEditor.handleDeletePassword and the onConfirm of its dialog
HandleDeletePassword(id) ==
    /\ Call
    /\ ~showTagsDialog
    /\ collection' = deletePassword(collection, id, EditorNow)
    /\ hasUnsavedChanges' = TRUE
    /\ lastHandler' = "delete"
    /\ aliased' = aliased \ {id}
    /\ UNCHANGED <<saving, updatedDb, persisted, tagDialogVars>>
    /\ UNCHANGED <<codecVars, utilsVars, appVars>>

\* what the tag dialog hands to onSave after its first changes to the tags of
\* c: a tag was added, or the tag work was deleted
TagSaves(c) ==
    LET names == {TagsOrEmpty(c)[k].name : k \in 1..Len(TagsOrEmpty(c))}
        deleteWork == [tags |-> SelectSeq(TagsOrEmpty(c), LAMBDA t : t.name # S_work),
                       renamedTags |-> <<>>, deletedTagNames |-> <<S_work>>]
        addTag == [tags |-> Append(TagsOrEmpty(c),
                                   [id |-> 3, name |-> S_NewTag, color |-> TAG_COLOR_0]),
                   renamedTags |-> <<>>, deletedTagNames |-> <<>>]
    IN  IF S_work \notin names THEN {}
        ELSE IF S_NewTag \in names THEN {deleteWork}
        ELSE {deleteWork, addTag}

\* PasswordFileEditor.handleSaveTags; map and filter make new tags arrays
HandleSaveTags(tags, renamed, deleted) ==
    /\ Call
    /\ collection' = SaveTagsCollection(collection, tags, renamed, deleted)
    /\ hasUnsavedChanges' = TRUE
    /\ lastHandler' = "saveTags"
    /\ aliased' = IF renamed = <<>> /\ deleted = <<>> THEN aliased ELSE {}
    /\ UNCHANGED <<saving, updatedDb, persisted, tagDialogVars>>
    /\ UNCHANGED <<codecVars, utilsVars, appVars>>

\* PasswordFileEditor.handleSave up to the await of deriveKey in
\* encodePasswoodFile; the Save button is there while hasUnsavedChanges and is
\* disabled while saving
HandleSaveClick ==
    /\ Call
    /\ ~showTagsDialog
    /\ hasUnsavedChanges
    /\ saving = "idle"
    /\ updatedDb' = [collection EXCEPT !.modified = EditorNow]
    /\ collection' = [collection EXCEPT !.modified = EditorNow]
    /\ saving' = "deriving"
    /\ aliased' = {collection.passwords[k].id : k \in
                     {j \in 1..Len(collection.passwords) :
                         collection.passwords[j].tags.st = "value"}}
    /\ lastHandler' = "save"
    /\ UNCHANGED <<hasUnsavedChanges, persisted, tagDialogVars>>
    /\ UNCHANGED <<codecVars, utilsVars, appVars>>

\* encodePasswoodFile after deriveKey: JSON.stringify(database) (format.ts:42)
HandleSaveStringify ==
    /\ saving = "deriving"
    /\ saving' = "storing"
    /\ aliased' = {}
    /\ UNCHANGED <<collection, hasUnsavedChanges, updatedDb, persisted, calls,
                   lastHandler, tagDialogVars>>
    /\ UNCHANGED <<codecVars, utilsVars, appVars>>

\* handleSave after savePasswordFile resolved
HandleSaveStored ==
    /\ saving = "storing"
    /\ persisted' = AsParsed(updatedDb)
    /\ hasUnsavedChanges' = FALSE
    /\ saving' = "idle"
    /\ updatedDb' = EditorDb
    /\ UNCHANGED <<collection, aliased, calls, lastHandler, tagDialogVars>>
    /\ UNCHANGED <<codecVars, utilsVars, appVars>>

\* handleSave after savePasswordFile rejected: the catch and finally blocks
HandleSaveFailed ==
    /\ saving = "storing"
    /\ saving' = "idle"
    /\ updatedDb' = EditorDb
    /\ UNCHANGED <<collection, hasUnsavedChanges, persisted, aliased, calls,
                   lastHandler, tagDialogVars>>
    /\ UNCHANGED <<codecVars, utilsVars, appVars>>

NextSaving ==
    \/ \E i \in 0..Len(collection.passwords) :
          \E data \in EntryInputs(collection, i) : HandleSaveEntry(i, data)
    \/ \E k \in 1..Len(collection.passwords) :
          HandleDeletePassword(collection.passwords[k].id)
    \/ \E a \in TagSaves(collection) :
          HandleSaveTags(a.tags, a.renamedTags, a.deletedTagNames)
    \/ HandleSaveClick
    \/ HandleSaveStringify
    \/ HandleSaveStored
    \/ HandleSaveFailed

----------------------------------------------------------------------------
(* MainPage.tsx, UnlockDialog.tsx, CreateCollectionDialog.tsx and the backend *)

\* the names of the files of the backend
FileNames == {"a.pass", "b.pass"}

\* decodePasswoodFile as one function: the collection, or the error thrown
decodePasswoodFile(fileData, masterPassword) ==
    LET failed == [ok |-> FALSE, database |-> Db_empty]
    IN  IF Len(fileData) < HEADER_SIZE + 12 THEN failed
        ELSE LET header  == deserializeHeader(Slice(fileData, 0, HEADER_SIZE))
                 hmacKey == createHMACKey(masterPassword, header.kdfSalt)
                 isValid == verifyHMAC(HeaderWithoutHMAC(header), header.hmac, hmacKey)
                 encryptionKey == deriveKey(masterPassword, header.kdfSalt,
                                            header.kdfIterations)
                 plain   == decryptData(Slice(fileData, HEADER_SIZE + 12, Len(fileData)),
                                        encryptionKey,
                                        Slice(fileData, HEADER_SIZE, HEADER_SIZE + 12))
             IN  IF header.magic # MAGIC_BYTES \/ header.version # FILE_VERSION
                 THEN failed
                 ELSE IF ~isValid THEN failed
                 ELSE IF ~plain.ok THEN failed
                 ELSE IF ~JSONParse(plain.text).ok THEN failed
                 ELSE [ok |-> TRUE, database |-> JSONParse(plain.text).v]

\* selectedFile && collection && masterPassword: the editor is rendered
EditorShown ==
    appUnlocked /\ selectedFile # "" /\ mainCollection # <<>> /\ mainMasterPassword # 0

\* the picker and the two dialogs are rendered
PickerShown == appUnlocked /\ ~EditorShown

\* the state CreateCollectionDialog is mounted with
NoForm == [collectionName |-> "new.pass", masterPassword |-> 0,
           confirmMasterPassword |-> 0, loading |-> FALSE]

\* a pending setTimeout callback
Timer(kind, delay, col, password, name, session) ==
    [kind |-> kind, delay |-> delay, collection |-> col, password |-> password,
     name |-> name, session |-> session]

\* setTimeout(() => { setCollection(col); ... }, 250) of handleUnlocked
UnlockedTimer(col, password, name, session) ==
    Timer("handleUnlocked", 250, <<col>>, password, name, session)

\* the session ends that were asked for and have not taken effect yet
PendingEnds ==
    Cardinality({i \in 1..Len(timers) : timers[i].kind \in {"handleBack", "handleLockApp"}})

\* the number of session ends asked for so far
Session == clears + PendingEnds

Without(seq, i) == SubSeq(seq, 1, i - 1) \o SubSeq(seq, i + 1, Len(seq))

\* one more step of the user, while the budget lasts
AppStep == appSteps < MaxAppSteps /\ appSteps' = appSteps + 1

InitShell ==
    /\ storage = [n \in FileNames |->
                     IF n = "a.pass"
                     THEN encodePasswoodFile(Db_one, 1, generateSalt(1), generateIV(1))
                     ELSE <<>>]
    /\ appUnlocked = TRUE
    /\ selectedFile = ""
    /\ mainCollection = <<>>
    /\ mainMasterPassword = 0
    /\ unlockDialogOpen = FALSE
    /\ createDialogOpen = FALSE
    /\ dialogCollectionName = ""
    /\ unlockPassword = 0
    /\ loading = FALSE
    /\ attempts = <<>>
    /\ createForm = NoForm
    /\ creations = <<>>
    /\ timers = <<>>
    /\ instance = 0
    /\ clears = 0
    /\ sessionOf = 0
    /\ appSteps = 0
    /\ appLast = ""

\* MainPage.handleFileSelect, from a file of the picker's list; the effect of
\* UnlockDialog on open empties the password input
HandleFileSelect(filename) ==
    /\ AppStep
    /\ PickerShown /\ ~unlockDialogOpen /\ ~createDialogOpen
    /\ storage[filename] # <<>>
    /\ dialogCollectionName' = filename
    /\ unlockDialogOpen' = TRUE
    /\ unlockPassword' = 0
    /\ appLast' = "handleFileSelect"
    /\ UNCHANGED <<storage, appUnlocked, selectedFile, mainCollection,
                   mainMasterPassword, createDialogOpen, loading, attempts,
                   createForm, creations, timers, instance, clears, sessionOf>>
    /\ UNCHANGED <<codecVars, editorVars, utilsVars, headerVars>>

\* MainPage.handleCreateNew; the effect of CreateCollectionDialog on open
\* empties its inputs
HandleCreateNew ==
    /\ AppStep
    /\ PickerShown /\ ~unlockDialogOpen /\ ~createDialogOpen
    /\ createDialogOpen' = TRUE
    /\ createForm' = [NoForm EXCEPT !.loading = createForm.loading]
    /\ appLast' = "handleCreateNew"
    /\ UNCHANGED <<storage, appUnlocked, selectedFile, mainCollection,
                   mainMasterPassword, unlockDialogOpen, dialogCollectionName,
                   unlockPassword, loading, attempts, creations, timers, instance,
                   clears, sessionOf>>
    /\ UNCHANGED <<codecVars, editorVars, utilsVars, headerVars>>

\* onOpenChange(false) of a dialog: its close button, Escape, a click outside
CloseDialog ==
    /\ AppStep
    /\ PickerShown /\ (unlockDialogOpen \/ createDialogOpen)
    /\ unlockDialogOpen' = FALSE
    /\ createDialogOpen' = FALSE
    /\ appLast' = "onOpenChange"
    /\ UNCHANGED <<storage, appUnlocked, selectedFile, mainCollection,
                   mainMasterPassword, dialogCollectionName, unlockPassword,
                   loading, attempts, createForm, creations, timers, instance,
                   clears, sessionOf>>
    /\ UNCHANGED <<codecVars, editorVars, utilsVars, headerVars>>

\* the user types the master password into UnlockDialog
TypeMasterPassword(password) ==
    /\ AppStep
    /\ PickerShown /\ unlockDialogOpen
    /\ unlockPassword # password
    /\ unlockPassword' = password
    /\ appLast' = "setMasterPassword"
    /\ UNCHANGED <<storage, appUnlocked, selectedFile, mainCollection,
                   mainMasterPassword, unlockDialogOpen, createDialogOpen,
                   dialogCollectionName, loading, attempts, createForm, creations,
                   timers, instance, clears, sessionOf>>
    /\ UNCHANGED <<codecVars, editorVars, utilsVars, headerVars>>

\* UnlockDialog.handleUnlock up to its first await: setLoading(true), and the
\* download is requested
HandleUnlock ==
    /\ Len(attempts) < MaxRunning
    /\ loading' = TRUE
    /\ attempts' = Append(attempts,
                      [pc |-> "downloading", name |-> dialogCollectionName,
                       password |-> unlockPassword, fileData |-> <<>>,
                       instance |-> instance, session |-> Session])
    /\ UNCHANGED <<storage, appUnlocked, selectedFile, mainCollection,
                   mainMasterPassword, unlockDialogOpen, createDialogOpen,
                   dialogCollectionName, unlockPassword, createForm, creations,
                   timers, instance, clears, sessionOf>>
    /\ UNCHANGED <<codecVars, editorVars, utilsVars, headerVars>>

\* the Unlock button: disabled={loading}
ClickUnlock ==
    /\ AppStep
    /\ PickerShown /\ unlockDialogOpen
    /\ ~loading
    /\ appLast' = "onClick"
    /\ HandleUnlock

\* Enter in the password input: e.key === 'Enter' && handleUnlock()
PressEnter ==
    /\ AppStep
    /\ PickerShown /\ unlockDialogOpen
    /\ appLast' = "onKeyDown"
    /\ HandleUnlock

\* what a call of handleUnlock or handleCreate does to the loading flag in its
\* finally: nothing when the dialog it belongs to has been unmounted
Finally(flag, call) == IF call.instance = instance THEN FALSE ELSE flag

\* router.get('/password_files/:filename') answers the download of attempt i,
\* with the file or, when there is none, with 404, which downloadPasswordFile
\* throws
RouterGet(i) ==
    /\ attempts[i].pc = "downloading"
    /\ IF storage[attempts[i].name] = <<>>
       THEN /\ attempts' = Without(attempts, i)
            /\ loading' = Finally(loading, attempts[i])
            /\ appLast' = "unlockFailed"
       ELSE /\ attempts' = [attempts EXCEPT ![i].pc = "decoding",
                                            ![i].fileData = storage[attempts[i].name]]
            /\ appLast' = "downloaded"
            /\ UNCHANGED loading
    /\ UNCHANGED <<storage, appUnlocked, selectedFile, mainCollection,
                   mainMasterPassword, unlockDialogOpen, createDialogOpen,
                   dialogCollectionName, unlockPassword, createForm, creations,
                   timers, instance, clears, sessionOf, appSteps>>
    /\ UNCHANGED <<codecVars, editorVars, utilsVars, headerVars>>

\* handleUnlock after await decodePasswoodFile: on success onUnlocked is
\* scheduled 400 ms later, on an error the popup is shown; finally
\* setLoading(false)
UnlockDecoded(i) ==
    /\ attempts[i].pc = "decoding"
    /\ LET db == decodePasswoodFile(attempts[i].fileData, attempts[i].password)
       IN  IF db.ok
           THEN /\ timers' = Append(timers,
                                Timer("onUnlocked", 400, <<db.database>>,
                                      attempts[i].password, attempts[i].name,
                                      attempts[i].session))
                /\ appLast' = "unlockSuccess"
           ELSE /\ appLast' = "unlockFailed"
                /\ UNCHANGED timers
    /\ attempts' = Without(attempts, i)
    /\ loading' = Finally(loading, attempts[i])
    /\ UNCHANGED <<storage, appUnlocked, selectedFile, mainCollection,
                   mainMasterPassword, unlockDialogOpen, createDialogOpen,
                   dialogCollectionName, unlockPassword, createForm, creations,
                   instance, clears, sessionOf, appSteps>>
    /\ UNCHANGED <<codecVars, editorVars, utilsVars, headerVars>>

\* the user fills the inputs of CreateCollectionDialog; the name input stores
\* the sanitized name followed by .pass
FillCreateForm(name, password, confirm) ==
    /\ AppStep
    /\ PickerShown /\ createDialogOpen
    /\ createForm' = [createForm EXCEPT !.collectionName = name,
                                        !.masterPassword = password,
                                        !.confirmMasterPassword = confirm]
    /\ createForm' # createForm
    /\ appLast' = "setCollectionName"
    /\ UNCHANGED <<storage, appUnlocked, selectedFile, mainCollection,
                   mainMasterPassword, unlockDialogOpen, createDialogOpen,
                   dialogCollectionName, unlockPassword, loading, attempts,
                   creations, timers, instance, clears, sessionOf>>
    /\ UNCHANGED <<codecVars, editorVars, utilsVars, headerVars>>

\* CreateCollectionDialog.handleCreate up to its first await, from the button
\* or from Enter in a password input
HandleCreate ==
    /\ AppStep
    /\ PickerShown /\ createDialogOpen
    /\ IF \/ createForm.collectionName = "new.pass"
          \/ createForm.masterPassword = 0
          \/ createForm.masterPassword # createForm.confirmMasterPassword
       THEN /\ appLast' = "createRejected"
            /\ UNCHANGED <<createForm, creations>>
       ELSE /\ Len(creations) < MaxRunning
            /\ createForm' = [createForm EXCEPT !.loading = TRUE]
            /\ creations' = Append(creations,
                               [pc |-> "encoding", name |-> createForm.collectionName,
                                password |-> createForm.masterPassword,
                                newCol |-> createEmptyCollection(clock),
                                encryptedData |-> <<>>,
                                instance |-> instance, session |-> Session])
            /\ appLast' = "handleCreate"
    /\ UNCHANGED <<storage, appUnlocked, selectedFile, mainCollection,
                   mainMasterPassword, unlockDialogOpen, createDialogOpen,
                   dialogCollectionName, unlockPassword, loading, attempts, timers,
                   instance, clears, sessionOf>>
    /\ UNCHANGED <<codecVars, editorVars, utilsVars, headerVars>>

\* await encodePasswoodFile(newCol, masterPassword) returns; savePasswordFile
\* sends the POST
CreateEncoded(i, s, v) ==
    /\ creations[i].pc = "encoding"
    /\ creations' = [creations EXCEPT
                        ![i].pc = "posting",
                        ![i].encryptedData =
                            encodePasswoodFile(creations[i].newCol, creations[i].password,
                                               generateSalt(s), generateIV(v))]
    /\ appLast' = "encoded"
    /\ UNCHANGED <<storage, appUnlocked, selectedFile, mainCollection,
                   mainMasterPassword, unlockDialogOpen, createDialogOpen,
                   dialogCollectionName, unlockPassword, loading, attempts,
                   createForm, timers, instance, clears, sessionOf, appSteps>>
    /\ UNCHANGED <<codecVars, editorVars, utilsVars, headerVars>>

\* router.post('/password_files/:filename'): fs.writeFile(filePath, buffer),
\* or status 500 when the write fails
RouterPost(i) ==
    /\ creations[i].pc = "posting"
    /\ \/ /\ storage' = [storage EXCEPT ![creations[i].name] = creations[i].encryptedData]
          /\ creations' = [creations EXCEPT ![i].pc = "saved"]
          /\ appLast' = "writeFile"
       \/ /\ creations' = [creations EXCEPT ![i].pc = "failed"]
          /\ appLast' = "status500"
          /\ UNCHANGED storage
    /\ UNCHANGED <<appUnlocked, selectedFile, mainCollection, mainMasterPassword,
                   unlockDialogOpen, createDialogOpen, dialogCollectionName,
                   unlockPassword, loading, attempts, createForm, timers, instance,
                   clears, sessionOf, appSteps>>
    /\ UNCHANGED <<codecVars, editorVars, utilsVars, headerVars>>

\* handleCreate after await savePasswordFile: onCreated (MainPage.handleUnlocked)
\* is called, or the error popup is shown; finally setLoading(false)
CreateReturned(i) ==
    /\ creations[i].pc \in {"saved", "failed"}
    /\ IF creations[i].pc = "saved"
       THEN /\ timers' = Append(timers,
                            UnlockedTimer(creations[i].newCol, creations[i].password,
                                          creations[i].name, creations[i].session))
            /\ appLast' = "onCreated"
       ELSE /\ appLast' = "createFailed"
            /\ UNCHANGED timers
    /\ creations' = Without(creations, i)
    /\ createForm' = [createForm EXCEPT !.loading = Finally(@, creations[i])]
    /\ UNCHANGED <<storage, appUnlocked, selectedFile, mainCollection,
                   mainMasterPassword, unlockDialogOpen, createDialogOpen,
                   dialogCollectionName, unlockPassword, loading, attempts,
                   instance, clears, sessionOf, appSteps>>
    /\ UNCHANGED <<codecVars, editorVars, utilsVars, headerVars>>

\* PasswordFileEditor's onBack: MainPage.handleBack schedules the clearing
HandleBack ==
    /\ AppStep
    /\ EditorShown
    /\ timers' = Append(timers, Timer("handleBack", 250, <<>>, 0, "", 0))
    /\ appLast' = "handleBack"
    /\ UNCHANGED <<storage, appUnlocked, selectedFile, mainCollection,
                   mainMasterPassword, unlockDialogOpen, createDialogOpen,
                   dialogCollectionName, unlockPassword, loading, attempts,
                   createForm, creations, instance, clears, sessionOf>>
    /\ UNCHANGED <<codecVars, editorVars, utilsVars, headerVars>>

\* the picker's lock button: MainPage.handleLockApp schedules the clearing
HandleLockApp ==
    /\ AppStep
    /\ PickerShown /\ ~unlockDialogOpen /\ ~createDialogOpen
    /\ timers' = Append(timers, Timer("handleLockApp", 250, <<>>, 0, "", 0))
    /\ appLast' = "handleLockApp"
    /\ UNCHANGED <<storage, appUnlocked, selectedFile, mainCollection,
                   mainMasterPassword, unlockDialogOpen, createDialogOpen,
                   dialogCollectionName, unlockPassword, loading, attempts,
                   createForm, creations, instance, clears, sessionOf>>
    /\ UNCHANGED <<codecVars, editorVars, utilsVars, headerVars>>

\* AppUnlockDialog's onUnlocked: MainPage.handleAppUnlocked
HandleAppUnlocked ==
    /\ AppStep
    /\ ~appUnlocked
    /\ timers' = Append(timers, Timer("handleAppUnlocked", 250, <<>>, 0, "", 0))
    /\ appLast' = "handleAppUnlocked"
    /\ UNCHANGED <<storage, appUnlocked, selectedFile, mainCollection,
                   mainMasterPassword, unlockDialogOpen, createDialogOpen,
                   dialogCollectionName, unlockPassword, loading, attempts,
                   createForm, creations, instance, clears, sessionOf>>
    /\ UNCHANGED <<codecVars, editorVars, utilsVars, headerVars>>

\* a timer is due before every timer set later with the same or a longer
\* delay; one set later with a shorter delay may be due before it
Due(i) == \A j \in 1..(i - 1) : timers[j].delay > timers[i].delay

\* the picker and its dialogs are unmounted when the editor or the app's lock
\* screen replaces them: their state is the initial one when they come back
Remount(shownBefore, shownAfter) ==
    IF shownBefore /\ ~shownAfter
    THEN /\ instance' = instance + 1
         /\ loading' = FALSE
         /\ unlockPassword' = 0
         /\ createForm' = NoForm
    ELSE UNCHANGED <<instance, loading, unlockPassword, createForm>>

\* the callback of timer i runs
FireTimer(i) ==
    /\ Due(i)
    /\ LET t == timers[i]
       IN  /\ appLast' = t.kind
           /\ CASE t.kind = "onUnlocked" ->
                    \* onUnlocked(db, masterPassword, collectionName): handleUnlocked
                    /\ timers' = Append(Without(timers, i),
                                     UnlockedTimer(t.collection[1], t.password, t.name,
                                                   t.session))
                    /\ UNCHANGED <<appUnlocked, selectedFile, mainCollection,
                                   mainMasterPassword, unlockDialogOpen,
                                   createDialogOpen, clears, sessionOf>>
                [] t.kind = "handleUnlocked" ->
                    /\ timers' = Without(timers, i)
                    /\ mainCollection' = t.collection
                    /\ mainMasterPassword' = t.password
                    /\ selectedFile' = t.name
                    /\ unlockDialogOpen' = FALSE
                    /\ createDialogOpen' = FALSE
                    /\ sessionOf' = t.session
                    /\ UNCHANGED <<appUnlocked, clears>>
                [] t.kind = "handleBack" ->
                    /\ timers' = Without(timers, i)
                    /\ selectedFile' = ""
                    /\ mainCollection' = <<>>
                    /\ mainMasterPassword' = 0
                    /\ clears' = clears + 1
                    /\ UNCHANGED <<appUnlocked, unlockDialogOpen, createDialogOpen,
                                   sessionOf>>
                [] t.kind = "handleLockApp" ->
                    /\ timers' = Without(timers, i)
                    /\ appUnlocked' = FALSE
                    /\ selectedFile' = ""
                    /\ mainCollection' = <<>>
                    /\ mainMasterPassword' = 0
                    /\ clears' = clears + 1
                    /\ UNCHANGED <<unlockDialogOpen, createDialogOpen, sessionOf>>
                [] t.kind = "handleAppUnlocked" ->
                    /\ timers' = Without(timers, i)
                    /\ appUnlocked' = TRUE
                    /\ UNCHANGED <<selectedFile, mainCollection, mainMasterPassword,
                                   unlockDialogOpen, createDialogOpen, clears,
                                   sessionOf>>
    /\ Remount(PickerShown, PickerShown')
    /\ UNCHANGED <<storage, dialogCollectionName, attempts, creations, appSteps>>
    /\ UNCHANGED <<codecVars, editorVars, utilsVars, headerVars>>

NextShell ==
    \/ \E filename \in FileNames : HandleFileSelect(filename)
    \/ HandleCreateNew
    \/ CloseDialog
    \/ \E password \in Passwords : TypeMasterPassword(password)
    \/ ClickUnlock
    \/ PressEnter
    \/ \E i \in 1..Len(attempts) : RouterGet(i)
    \/ \E i \in 1..Len(attempts) : UnlockDecoded(i)
    \/ \E name \in FileNames, password \in Passwords, confirm \in Passwords :
          FillCreateForm(name, password, confirm)
    \/ HandleCreate
    \/ \E i \in 1..Len(creations), s \in 1..MaxSalt, v \in 1..MaxIv : CreateEncoded(i, s, v)
    \/ \E i \in 1..Len(creations) : RouterPost(i)
    \/ \E i \in 1..Len(creations) : CreateReturned(i)
    \/ HandleBack
    \/ HandleLockApp
    \/ HandleAppUnlocked
    \/ \E i \in 1..Len(timers) : FireTimer(i)

----------------------------------------------------------------------------
(* format.ts: serializeHeader and deserializeHeader applied to given headers *)

\* magic strings whose UTF-8 encoding has four bytes: 'PSWD', four NULs,
\* U+00E9 'ab', U+20AC 'a', U+1F600 (a surrogate pair), U+FEFF 'a', and a
\* lone high surrogate followed by 'a'
Magics == {MAGIC_BYTES, <<0, 0, 0, 0>>, <<233, 97, 98>>, <<8364, 97>>,
           <<55357, 56832>>, <<65279, 97>>, <<55296, 97>>}

\* values of a uint32 field: zero, one, the low and the high half, the largest
Uint32s == {U32(0), U32(1), <<65535, 0>>, <<0, 32768>>, <<65535, 65535>>}

\* arrays of 32 bytes
Bytes32 == {Zeros(32), [i \in 1..32 |-> 255], [i \in 1..32 |-> 8 * i - 1]}

\* PasswoodHeader values with a 4-byte magic, 32-byte salt and hmac
Headers ==
    [magic               : Magics,
     version             : {U32(0), FILE_VERSION, <<65535, 65535>>},
     encryptionAlgorithm : {ENCRYPTION_ALGORITHM_AES_GCM},
     kdfSalt             : Bytes32,
     kdfIterations       : {U32(600000), <<65535, 65535>>},
     kdfMemory           : {U32(0), <<0, 32768>>},
     kdfParallelism      : {U32(0), U32(257)},
     hmac                : {Zeros(32), [i \in 1..32 |-> 256 - i]}]

\* the header encodePasswoodFile builds before the HMAC is known
InitHeader ==
    /\ hpc = "given"
    /\ hIn = [magic |-> MAGIC_BYTES, version |-> FILE_VERSION,
              encryptionAlgorithm |-> ENCRYPTION_ALGORITHM_AES_GCM,
              kdfSalt |-> Zeros(32), kdfIterations |-> U32(600000),
              kdfMemory |-> U32(0), kdfParallelism |-> U32(0),
              hmac |-> Zeros(32)]
    /\ hBytes = <<>>
    /\ hOut = NoHeader

\* a caller builds a header
GiveHeader(header) ==
    /\ hpc = "done"
    /\ hpc' = "given"
    /\ hIn' = header
    /\ hBytes' = <<>>
    /\ hOut' = NoHeader
    /\ UNCHANGED <<codecVars, editorVars, utilsVars, shellVars>>

\* serializeHeader(hIn)
SerializeHeader ==
    /\ hpc = "given"
    /\ hpc' = "serialized"
    /\ hBytes' = serializeHeader(hIn)
    /\ UNCHANGED <<hIn, hOut>>
    /\ UNCHANGED <<codecVars, editorVars, utilsVars, shellVars>>

\* deserializeHeader(hBytes); a buffer shorter than HEADER_SIZE is refused
DeserializeHeader ==
    /\ hpc = "serialized"
    /\ Len(hBytes) >= HEADER_SIZE
    /\ hpc' = "done"
    /\ hOut' = deserializeHeader(hBytes)
    /\ UNCHANGED <<hIn, hBytes>>
    /\ UNCHANGED <<codecVars, editorVars, utilsVars, shellVars>>

NextHeader ==
    \/ \E header \in Headers : GiveHeader(header)
    \/ SerializeHeader
    \/ DeserializeHeader

----------------------------------------------------------------------------
(* Specifications *)

Init == InitCodec /\ InitEditor /\ InitUtils /\ InitHeader /\ InitShell

\* the codec alone: the editor is not touched
SpecCodec == Init /\ [][NextCodec]_vars

\* the editor alone: no file is encoded or decoded
SpecEditor == Init /\ [][NextEditor]_vars

\* the functions of utils.ts alone
SpecUtils == Init /\ [][NextUtils]_vars

\* the editor of records and its save to the server
SpecSaving == Init /\ [][NextSaving]_vars

\* the header codec alone, applied to every header of Headers
SpecHeader == Init /\ [][NextHeader]_vars

\* the picker, its two dialogs, the session state of MainPage and the backend
SpecShell == Init /\ [][NextShell]_vars

----------------------------------------------------------------------------
(* Properties of the codec *)

\* two records agree on every property a reader can see
SamePassword(p, q) ==
    /\ p.id = q.id /\ p.title = q.title /\ p.login = q.login
    /\ p.password = q.password
    /\ Get(p.url) = Get(q.url) /\ Get(p.notes) = Get(q.notes)
    /\ Get(p.tags) = Get(q.tags)
    /\ p.created = q.created /\ p.modified = q.modified

SameDatabase(a, b) ==
    /\ a.version = b.version /\ a.created = b.created /\ a.modified = b.modified
    /\ Len(a.passwords) = Len(b.passwords)
    /\ \A i \in 1..Len(a.passwords) : SamePassword(a.passwords[i], b.passwords[i])
    /\ Get(a.tags) = Get(b.tags)

DecodeEnded == dpc \in {"done", "failed"}

\* C1: a decode of an unmodified encode output with the password it was
\* encoded with succeeds and returns a database equal to the encoded one:
\* same records in the same order with the same property values, same tags
C1_RoundTrip ==
    (DecodeEnded /\ flipped = 0 /\ dPw = encPw) =>
        /\ dpc = "done"
        /\ Len(dResult) = 1
        /\ SameDatabase(dResult[1], encDb)

\* a finished round trip of a database with a record whose url holds undefined
C1_Witness ==
    /\ dpc = "done" /\ flipped = 0 /\ dPw = encPw
    /\ Len(encDb.passwords) > 0
    /\ encDb.passwords[1].url = Undefined

MergedErrors == {E_HMAC, E_DECRYPT}

\* C2: a decode of an unmodified encode output with any other password than
\* the one it was encoded with fails with the HMAC or the decryption error
\* and returns nothing
C2_WrongPassword ==
    (DecodeEnded /\ flipped = 0 /\ dPw # encPw) =>
        /\ dpc = "failed"
        /\ dError \in MergedErrors
        /\ dResult = <<>>

\* a decode with a wrong password has ended
C2_Witness ==
    /\ dpc = "failed" /\ flipped = 0 /\ dPw # encPw /\ dError \in MergedErrors

\* the bytes of the header and of the ciphertext with its tag (1-based)
TamperClaimed(i) == i \in 1..HEADER_SIZE \/ i > HEADER_SIZE + IV_SIZE

\* C3: decode never returns a database from a file in which one bit of the
\* 256-byte header or of the ciphertext (tag included) was flipped
C3_TamperDetection ==
    (flipped # 0 /\ TamperClaimed(flipped)) => dpc # "done"

CallAt(name) == {i \in 1..Len(dLog) : dLog[i] = name}

\* C4: in every decode the encryption key is derived, and decryptData called,
\* only after verifyHMAC returned true; when verifyHMAC returns false decode
\* fails without a decryption key and without a call of deriveKey or decryptData
C4_IntegrityBeforeDecryption ==
    /\ \A i \in CallAt("deriveKey") \cup CallAt("decryptData") :
          /\ dIsValid = "true"
          /\ \E j \in CallAt("verifyHMAC") : j < i
    /\ dKey # NoKey => dIsValid = "true"
    /\ dIsValid = "false" =>
          /\ dpc = "failed"
          /\ dKey = NoKey
          /\ CallAt("deriveKey") \cup CallAt("decryptData") = {}

\* a decode that was aborted by the HMAC check of an unmodified file
C4_Witness ==
    /\ dpc = "failed" /\ dIsValid = "false" /\ dError = E_HMAC
    /\ CallAt("verifyHMAC") # {}

\* C11: a decode that fails because the header HMAC does not verify throws
\* the same error as a decode that fails because the GCM tag does not verify,
\* so that the error does not tell which of the two checks failed
C11_MergedFailureCauses ==
    (dpc = "failed" /\ dIsValid = "false") => dError = E_DECRYPT

\* C12: when a decode fails because the decrypted text does not parse, the
\* message the unlock dialog then shows is not the incorrect-password message
C12_CorruptionReportedDistinctly ==
    [][(dpc = "failed" /\ dError = E_JSON /\ dpc' = "idle")
          => errorPopupMessage' # S_IncorrectPassword]_vars

\* bytes 0..3 of the stored file are not 'PSWD'
WrongMagic == SubSeq(file, 1, 4) # <<80, 83, 87, 68>>

\* bytes 4..7 of the stored file are not the little-endian number 1
WrongVersion == SubSeq(file, 5, 8) # <<1, 0, 0, 0>>

\* C13: a decode of a file shorter than 256 + 12 = 268 bytes fails with the
\* too-small error at once: no header was parsed, no key was derived and no
\* function of crypto.ts was called
C13_TooSmallFirst ==
    (dpc # "idle" /\ Len(file) < 268) =>
        /\ dpc = "failed"
        /\ dError = E_SMALL
        /\ dHeader = NoHeader
        /\ dKey = NoKey
        /\ dLog = <<>>
        /\ dResult = <<>>

\* a decode of a file of 267 bytes has failed
C13_Witness ==
    /\ dpc = "failed" /\ Len(file) = 267 /\ dError = E_SMALL

\* C14: a decode of a file of at least 268 bytes whose first four bytes are
\* not 'PSWD', or whose version is not 1, fails with the magic or the version
\* error, whatever the password is, and no key was derived and no function of
\* crypto.ts was called
C14_FormatErrorBeforeKdf ==
    (dpc # "idle" /\ Len(file) >= 268 /\ (WrongMagic \/ WrongVersion)) =>
        /\ dpc = "failed"
        /\ dError = IF WrongMagic THEN E_MAGIC ELSE E_VERSION
        /\ dKey = NoKey
        /\ dLog = <<>>
        /\ dResult = <<>>

\* a decode with the right password of a file with a version other than 1 has
\* failed
C14_Witness ==
    /\ dpc = "failed" /\ dPw = encPw /\ ~WrongMagic /\ WrongVersion
    /\ dError = E_VERSION

C19_FileLayout ==
    (file # <<>> /\ flipped = 0) =>
        LET jsonData == JSONStringify(encDb)
            salt == generateSalt(encSalt)
            iv == generateIV(encIv)
            key == deriveKey(encPw, salt, PBKDF2_ITERATIONS)
        IN  /\ Len(file) = 268 + Len(TextEncode(jsonData)) + 16
            /\ SubSeq(file, 1, 4) = <<80, 83, 87, 68>>
            /\ SubSeq(file, 13, 44) = salt
            /\ \A i \in 89..256 : file[i] = 0
            /\ SubSeq(file, 257, 268) = iv
            /\ SubSeq(file, 269, Len(file)) = encryptData(jsonData, key, iv)

\* the stored file is the encode output of a vault with two records
C19_Witness ==
    /\ file # <<>> /\ flipped = 0 /\ Len(encDb.passwords) = 2
    /\ Len(file) > 268 + 16

\* the properties a collection has
HasVaultShape(v) ==
    {"version", "created", "modified", "passwords"} \subseteq DOMAIN v

\* C23: the value decode returns has the shape of a collection: a payload
\* that decrypts and parses but lacks the record list is not returned
C23_StructuralValidation ==
    dpc = "done" => HasVaultShape(dResult[1])

\* the number a 32-bit field holds
U32Value(v) == v[1] + 65536 * v[2]

\* C24: the encryption key and the HMAC key that a decode derives from the
\* password are both derived with at least 600000 iterations
C24_KdfIterations ==
    dpc \in {"deriving", "parsing", "done"} =>
        /\ U32Value(dKey.iter) >= 600000
        /\ U32Value(createHMACKey(dPw, dHeader.kdfSalt).iter) >= 600000

\* C25: a decode, with the password it was written with, of a file that an
\* earlier build wrote with another iteration count returns the database
\* that was written
C25_HeaderIterations ==
    (DecodeEnded /\ flipped = -2 /\ dPw = encPw) =>
        /\ dpc = "done"
        /\ Len(dResult) = 1
        /\ SameDatabase(dResult[1], encDb)

\* a file with 310000 iterations in its header was decoded with a key of
\* 310000 iterations
C25_Witness ==
    /\ dpc = "done" /\ flipped = -2 /\ dPw = encPw
    /\ dHeader.kdfIterations = OLDER_ITERATIONS
    /\ dKey.iter = OLDER_ITERATIONS
    /\ OLDER_ITERATIONS # PBKDF2_ITERATIONS

----------------------------------------------------------------------------
(* Properties of the tag dialog and its cascade *)

TagIds(tags) == {tags[i].id : i \in 1..Len(tags)}

\* the step is a Save of the tag dialog
SaveStep == saves' = saves + 1

\* the name n' a record must carry after the Save where it carried n before:
\* the new name of the tag that was called n, and n itself if no tag was
RenamedTo(before, after, n, n2) ==
    /\ \A i \in 1..Len(before), j \in 1..Len(after) :
          (before[i].name = n /\ after[j].id = before[i].id) => n2 = after[j].name
    /\ (\A i \in 1..Len(before) : before[i].name # n) => n2 = n

\* only renames were made in the dialog: no tag added or deleted, no edit
\* left with Escape or rejected
OnlyRenames ==
    /\ ~abandoned
    /\ deletedTagNames = <<>>
    /\ TagIds(editedTags) = TagIds(originalTags)

\* C5: when a sequence of renames of tags is saved, every record that carried
\* the old name of a renamed tag carries the current name of that tag in its
\* place, and no record gains or loses any other tag
C5_RenameCascade ==
    [][(SaveStep /\ OnlyRenames) =>
          \A r \in 1..Len(collection.passwords) :
             LET old == Get(collection.passwords[r].tags)
                 new == Get(collection'.passwords[r].tags)
             IN  /\ Len(new) = Len(old)
                 /\ old # <<>> =>
                      \A k \in 1..Len(old[1]) :
                         /\ Len(new[1]) = Len(old[1])
                         /\ RenamedTo(TagsOrEmpty(collection), TagsOrEmpty(collection'),
                                      old[1][k], new[1][k])]_vars

\* the tags of the collection that the Save removes
SaveDeletes ==
    {t \in {TagsOrEmpty(collection)[i] : i \in 1..Len(TagsOrEmpty(collection))} :
        t.id \notin TagIds(editedTags)}

\* the Save leaves the name of every tag it keeps as it is in the collection
SaveRenamesNone ==
    \A i \in 1..Len(TagsOrEmpty(collection)), j \in 1..Len(editedTags) :
        TagsOrEmpty(collection)[i].id = editedTags[j].id
           => TagsOrEmpty(collection)[i].name = editedTags[j].name

\* C6: a Save that deletes a tag removes the tag from the tag list and its
\* name from the tags of every record; the records and their order stay, and
\* so do the other tags of every record
C6_DeleteCascade ==
    [][(SaveStep /\ SaveDeletes # {} /\ SaveRenamesNone) =>
          /\ \A t \in SaveDeletes : t.id \notin TagIds(TagsOrEmpty(collection'))
          /\ Len(collection'.passwords) = Len(collection.passwords)
          /\ \A r \in 1..Len(collection.passwords) :
                /\ collection'.passwords[r].id = collection.passwords[r].id
                /\ Get(collection'.passwords[r].tags) =
                      IF Get(collection.passwords[r].tags) = <<>> THEN <<>>
                      ELSE <<SelectSeq(collection.passwords[r].tags.v,
                                LAMBDA n : \A t \in SaveDeletes : t.name # n)>>]_vars

\* the name in the input is not empty and, ignoring case and surrounding
\* whitespace, is the name of another tag of the dialog
DuplicateTyped ==
    /\ editingId # 0
    /\ FindTag(editedTags, editingId) # <<>>
    /\ trim(FindTag(editedTags, editingId)[1].name) # <<>>
    /\ \E i \in 1..Len(editedTags) :
          /\ editedTags[i].id # editingId
          /\ toLowerCase(trim(editedTags[i].name)) =
                toLowerCase(trim(FindTag(editedTags, editingId)[1].name))

\* the step ends the edit by showing "Invalid tag name!"
RejectStep == ~showErrorPopup /\ showErrorPopup' /\ editingId # 0 /\ editingId' = 0

\* C7: when the rename of tag A to the name of another tag B, compared
\* ignoring case and surrounding whitespace, is rejected, A and B have the
\* names they had when the rename was attempted and no rename is recorded
C7_DuplicateRejected ==
    [][(DuplicateTyped /\ RejectStep) =>
          /\ \A i \in 1..Len(editedTags) :
                editedTags[i].id # editingId
                   => FindTag(editedTags', editedTags[i].id) = <<editedTags[i]>>
          /\ FindTag(editedTags', editingId) # <<>>
          /\ FindTag(editedTags', editingId)[1].name = editStart
          /\ renamedTags' = renamedTags]_vars

\* C8: no two tags of the saved tag list have names that are equal ignoring
\* case and surrounding whitespace
C8_UniqueTagNames ==
    \A i, j \in 1..Len(TagsOrEmpty(collection)) :
        i # j => toLowerCase(trim(TagsOrEmpty(collection)[i].name)) #
                 toLowerCase(trim(TagsOrEmpty(collection)[j].name))

\* C16: a Save of the tag dialog that changes the tags of a record, because
\* a tag the record carries was renamed or deleted, gives the record a later
\* modified timestamp
C16_CascadeTouchesModified ==
    [][SaveStep =>
          \A r \in 1..Len(collection.passwords) :
             Get(collection'.passwords[r].tags) # Get(collection.passwords[r].tags)
                => collection'.passwords[r].modified > collection.passwords[r].modified]_vars

----------------------------------------------------------------------------
(* Properties of the editor of records and its save *)

\* the step is a handler call that adds, updates or deletes a record or saves
\* the changes of the tag dialog
MutationStep ==
    /\ calls' = calls + 1
    /\ lastHandler' \in {"add", "update", "delete", "saveTags"}

\* C17: every handler call that adds, updates or deletes a record or saves
\* tag changes sets the modified timestamp of the collection to a later time,
\* and modified is never earlier than created
C17_VaultModifiedRefreshed ==
    [][/\ MutationStep => collection'.modified > collection.modified
       /\ collection'.modified >= collection'.created]_vars

\* C20: when a save completes and clears hasUnsavedChanges, the collection of
\* the editor is the collection a load of the stored file returns: no change
\* made while the save was in flight is marked as saved
C20_SavedMeansPersisted ==
    [][(saving = "storing" /\ saving' = "idle" /\ ~hasUnsavedChanges')
          => AsParsed(collection') = persisted']_vars

----------------------------------------------------------------------------
(* Properties of utils.ts *)

PasswordIds(db) == {db.passwords[i].id : i \in 1..Len(db.passwords)}

\* C9: updatePassword with an id that no record of the collection has throws
\* a not-found error and hands no updated collection on
C9_UpdateUnknownId ==
    (lastCall.fn = "updatePassword" /\ lastCall.passwordId \notin PasswordIds(lastCall.before))
        => (thrown = "NotFoundError" /\ vault = lastCall.before)

\* s contains q as a substring, letters compared without their case
ContainsIgnoringCase(s, q) ==
    \E k \in 0..(Len(s) - Len(q)) :
        \A j \in 1..Len(q) : LowerChar(s[k + j]) = LowerChar(q[j])

\* the title, the login, the url or one of the tags of p contains q
Matches(p, q) ==
    \/ ContainsIgnoringCase(p.title, q)
    \/ ContainsIgnoringCase(p.login, q)
    \/ \E u \in {p.url.v : x \in {1} \cap (IF p.url.st = "value" THEN {1} ELSE {})} :
          ContainsIgnoringCase(u, q)
    \/ \E ts \in {p.tags.v : x \in {1} \cap (IF p.tags.st = "value" THEN {1} ELSE {})} :
          \E i \in 1..Len(ts) : ContainsIgnoringCase(ts[i], q)

\* C10: searchPasswords returns the records whose title, login, url or one of
\* whose tags contains the query ignoring case, in the order of the
\* collection, and no other record
C10_Search ==
    lastCall.fn = "searchPasswords"
        => returned = SelectSeq(lastCall.before.passwords,
                                LAMBDA p : Matches(p, lastCall.query))

\* C10: a search for "git" in two records returned the one with the title
\* GitHub and left out the one that has git only in its notes
C10_Witness ==
    /\ lastCall.fn = "searchPasswords"
    /\ lastCall.query = S_git
    /\ Len(lastCall.before.passwords) = 2
    /\ lastCall.before.passwords[1].notes = Some(S_git)
    /\ Len(returned) = 1
    /\ returned[1].title = S_GitHub

\* C18: no two records of the collection have the same id, and after
\* updatePassword the collection has the records it had before, each with the
\* id and the created timestamp it had before
C18_RecordIdentity ==
    /\ \A i, j \in 1..Len(vault.passwords) :
          i # j => vault.passwords[i].id # vault.passwords[j].id
    /\ lastCall.fn = "updatePassword" =>
          /\ Len(vault.passwords) = Len(lastCall.before.passwords)
          /\ \A i \in 1..Len(vault.passwords) :
                /\ vault.passwords[i].id = lastCall.before.passwords[i].id
                /\ vault.passwords[i].created = lastCall.before.passwords[i].created

\* updatePassword has changed the title and the modified timestamp of one of
\* two records
C18_Witness ==
    /\ lastCall.fn = "updatePassword"
    /\ Len(vault.passwords) = 2
    /\ \E i \in 1..2 :
          /\ vault.passwords[i].id = lastCall.passwordId
          /\ vault.passwords[i].title # lastCall.before.passwords[i].title
          /\ vault.passwords[i].modified > vault.passwords[i].created

\* the ids of the records of a collection, in their order
Ids(db) == [i \in 1..Len(db.passwords) |-> db.passwords[i].id]

\* the position of the record with the given id, 0 when there is none
Position(db, id) ==
    IF \E i \in 1..Len(db.passwords) : db.passwords[i].id = id
    THEN CHOOSE i \in 1..Len(db.passwords) : db.passwords[i].id = id
    ELSE 0

C28_PureOperations ==
    LET before == lastCall.before
    IN  lastCall.fn \in {"addPassword", "updatePassword", "deletePassword"} =>
           /\ lastCall.argument = before
           /\ vault.version = before.version
           /\ vault.created = before.created
           /\ vault.tags = before.tags
           /\ \A i \in 1..Len(before.passwords) :
                 before.passwords[i].id # lastCall.passwordId =>
                    \E j \in 1..Len(vault.passwords) :
                        vault.passwords[j] = before.passwords[i]
           /\ \A j \in 1..Len(vault.passwords) :
                 vault.passwords[j].id # lastCall.passwordId =>
                    \E i \in 1..Len(before.passwords) :
                        vault.passwords[j] = before.passwords[i]

\* one of two records has been updated at a later time than both were
\* written: the other is in the result as it was, and the collection given
\* still has the record as it was before the update
C28_Witness ==
    /\ lastCall.fn = "updatePassword"
    /\ Len(lastCall.before.passwords) = 2
    /\ lastCall.argument = lastCall.before
    /\ vault.modified > lastCall.before.modified
    /\ \E i \in 1..2 :
          /\ vault.passwords[i] # lastCall.before.passwords[i]
          /\ vault.passwords[3 - i] = lastCall.before.passwords[3 - i]
          /\ vault.passwords[3 - i].modified < clock

\* the renames and deletions made in the tag dialog since its last Save
NewRenames == SubSeq(renamedTags, savedUpTo[1] + 1, Len(renamedTags))

NewDeletions == SubSeq(deletedTagNames, savedUpTo[2] + 1, Len(deletedTagNames))

\* C21: every rename and every deletion of a tag is cascaded to the records by
\* exactly one Save of the tag dialog: a Save changes the tags of the records
\* as the renames and deletions made since the previous Save require, and
\* never strips or rewrites a tag of a record because of a rename or deletion
\* an earlier Save has already applied
C21_CascadedOnce ==
    [][SaveStep =>
          collection'.passwords =
              ApplyDeletes(ApplyRenames(collection.passwords, NewRenames),
                           NewDeletions)]_vars

----------------------------------------------------------------------------
(* Properties of the header codec *)

\* the header deserializeHeader returned equals the header given, field for
\* field, and the buffer between them has HEADER_SIZE bytes
HeaderRoundTrip ==
    /\ Len(hBytes) = HEADER_SIZE
    /\ hOut.magic = hIn.magic
    /\ hOut.version = hIn.version
    /\ hOut.encryptionAlgorithm = hIn.encryptionAlgorithm
    /\ hOut.kdfSalt = hIn.kdfSalt
    /\ hOut.kdfIterations = hIn.kdfIterations
    /\ hOut.kdfMemory = hIn.kdfMemory
    /\ hOut.kdfParallelism = hIn.kdfParallelism
    /\ hOut.hmac = hIn.hmac

----------------------------------------------------------------------------
(* Properties of the picker, its dialogs and the session state *)

\* C22: creating a collection never replaces a stored file: when the backend
\* writes the file of a creation, no file that was there before has other
\* bytes after the write
C22_CreateKeepsExisting ==
    [][appLast' = "writeFile" =>
          \A n \in FileNames : storage[n] # <<>> => storage'[n] = storage[n]]_vars

\* C26: while a call of handleUnlock (download and decode) is running, the
\* dialog starts no second one, by the button or by Enter: at most one call
\* is running at any time
C26_OneUnlockInFlight == Len(attempts) <= 1

\* C29: when the session ends (handleBack, handleLockApp) the collection and
\* the master password of MainPage are cleared, and they stay cleared until
\* the user unlocks a collection again: what they hold comes from an unlock
\* or creation started after the last session end that has taken effect; and
\* the editor is shown only while file name, collection and master password
\* are all set
C29_ClearedUntilUnlock ==
    /\ appLast \in {"handleBack", "handleLockApp"} /\ timers = <<>> =>
           mainCollection = <<>> /\ mainMasterPassword = 0
    /\ (mainCollection # <<>> \/ mainMasterPassword # 0) => sessionOf >= clears
    /\ EditorShown =>
           selectedFile # "" /\ mainCollection # <<>> /\ mainMasterPassword # 0

====
